---- MODULE Spec2Model ----
(***************************************************************************)
(* A state-machine model of pylabframe:                                    *)
(*   - the labelled N-dimensional container NumericalData                  *)
(*     (src/pylabframe/data/core.py): construction, iloc indexing,         *)
(*     stack, save_npz / load_npz;                                         *)
(*   - the device registry (src/pylabframe/hw/device.py): get_device,      *)
(*     _connect_device and Device construction;                            *)
(*   - the VISA binding layer (src/pylabframe/hw/visadevice.py):           *)
(*     VisaDevice construction and teardown, visa_property, visa_command,  *)
(*     visa_query, the command options and wait_until_done.                *)
(*                                                                         *)
(* Python objects that the code shares by reference (the reduced_axes      *)
(* lists and the metadata dicts) live in heaps (lists, dicts); a container *)
(* holds the index of its list and of its dict, so aliasing is visible.    *)
(* Python's None is the empty tuple <<>> and a present value x is <<x>>.   *)
(* Python positions are 0-based; TLA+ sequences are 1-based, so position p *)
(* of the code is element p + 1 here.                                      *)
(***************************************************************************)
EXTENDS Integers, Sequences, FiniteSets, TLC

VARIABLES
    objs,       \* the NumericalData objects built so far, in creation order
    lists,      \* heap of Python list objects used as reduced_axes logs
    dicts,      \* heap of Python dict objects used as metadata
    last,       \* the last container operation: its arguments, its outcome, the state before it
    archive,    \* the content of the .npz file written by save_npz, None before
    quota,      \* how many calls of each container operation the behaviour may still make
    hwconf,     \* the loaded configuration: devices, drivers.modules, drivers.classes
    cache,      \* device._connected_devices: id -> index into devs
    devs,       \* the Device objects whose construction completed, in order
    imported,   \* the modules the driver resolution has imported
    ctorRuns,   \* per id, how many times a driver constructor was entered
    optedOut,   \* a constructor was called with error_on_double_connect=False
    returned,   \* per id, the Device objects get_device has returned for it
    calls,      \* how many registry calls the behaviour may still make
    hierarchy,  \* the device classes: per class, its bases and the class attributes it declares
    rlast,      \* the last registry operation: its arguments, its outcome, the state before it
    inst,       \* the VisaDevice objects, in creation order: their instance attributes
    odicts,     \* heap of Python dict objects holding the options of one command
    vlast,      \* the last VISA operation: its arguments, its outcome, what reached the transport
    vq,         \* how many calls of each VISA operation the behaviour may still make
    wait        \* the wait_until_done call in progress: its position, its clock, its outcome

dataVars == <<objs, lists, dicts, last, archive, quota>>
regVars == <<hwconf, cache, devs, imported, ctorRuns, optedOut, returned, calls, hierarchy, rlast>>
visaVars == <<inst, odicts, vlast, vq, wait>>
vars == <<objs, lists, dicts, last, archive, quota,
          hwconf, cache, devs, imported, ctorRuns, optedOut, returned, calls, hierarchy, rlast,
          inst, odicts, vlast, vq, wait>>

(***************************************************************************)
(* Bounds of the model.                                                    *)
(***************************************************************************)
MaxRank == 2          \* largest rank of a directly constructed grid
MaxIloc == 2          \* iloc calls per behaviour
MaxNew == 2           \* directly constructed containers per behaviour (stacking, persistence)
MaxStackInputs == 2   \* longest input sequence given to stack
MaxCalls == 3         \* registry calls (get_device, direct constructions) per behaviour
MaxVisaNew == 2       \* VisaDevice objects constructed per behaviour
MaxDel == 2           \* teardowns (__del__) per behaviour
MaxAccess == 1        \* property accesses and action calls per behaviour
MaxOption == 2        \* set_command_option / remove_command_option calls per behaviour
MaxWait == 2          \* largest finite max_wait, in ticks of the clock
MaxEdit == 2          \* assignments into a container's metadata per behaviour

None == <<>>
Some(x) == <<x>>

Max(a, b) == IF a >= b THEN a ELSE b
Min(a, b) == IF a <= b THEN a ELSE b

RECURSIVE SetToSeq(_)
SetToSeq(S) ==
    IF S = {} THEN <<>>
    ELSE LET x == CHOOSE y \in S : TRUE IN <<x>> \o SetToSeq(S \ {x})

(***************************************************************************)
(* numpy arrays.  A grid is [shape, data]: data maps every 0-based index   *)
(* tuple within shape to the cell's value.                                 *)
(***************************************************************************)
IndexSet(shape) ==
    LET n == Len(shape)
        m == IF n = 0 THEN 0 ELSE Max(0, CHOOSE d \in {shape[i] : i \in 1..n} :
                                          \A i \in 1..n : shape[i] <= d)
    IN {s \in [1..n -> 0..(m - 1)] : \A i \in 1..n : s[i] < shape[i]}

\* Index expressions: an integer, a slice(start, stop, step) or Ellipsis.
IntSel(i) == [k |-> "int", a |-> Some(i), b |-> None, c |-> None]
SliceSel(start, stop, step) == [k |-> "slice", a |-> start, b |-> stop, c |-> step]
EllipsisSel == [k |-> "ellipsis", a |-> None, b |-> None, c |-> None]
FullSlice == SliceSel(None, None, None)

\* slice.indices(n) for a positive step
SliceStart(n, s) ==
    IF s.a = None THEN 0
    ELSE IF s.a[1] < 0 THEN Max(s.a[1] + n, 0) ELSE Min(s.a[1], n)
SliceStop(n, s) ==
    IF s.b = None THEN n
    ELSE IF s.b[1] < 0 THEN Max(s.b[1] + n, 0) ELSE Min(s.b[1], n)
SliceStep(s) == IF s.c = None THEN 1 ELSE s.c[1]
SliceLen(n, s) ==
    LET lo == SliceStart(n, s)
        hi == SliceStop(n, s)
        st == SliceStep(s)
    IN IF hi > lo THEN (hi - lo + st - 1) \div st ELSE 0

\* an integer index on a dimension of size n, as numpy normalises it
NormInt(n, i) == IF i < 0 THEN i + n ELSE i
IntInRange(n, i) == NormInt(n, i) >= 0 /\ NormInt(n, i) < n

NumEllipsis(sels) == Cardinality({i \in DOMAIN sels : sels[i].k = "ellipsis"})

Repeat(x, n) == [i \in 1..n |-> x]

\* the positions of a selector list that hold slices, in order
KeptPositions(sels) ==
    LET F[i \in 0..Len(sels)] ==
            IF i = 0 THEN <<>>
            ELSE IF sels[i].k = "slice" THEN Append(F[i - 1], i) ELSE F[i - 1]
    IN F[Len(sels)]

\* numpy's own expansion of an index tuple over ndim dimensions: the ellipsis
\* stands for the missing dimensions, and so does a short tuple's tail
NpExpand(ndim, sels) ==
    LET given == Len(sels) - NumEllipsis(sels)
        e == CHOOSE i \in DOMAIN sels : sels[i].k = "ellipsis"
    IN IF NumEllipsis(sels) = 1
       THEN SubSeq(sels, 1, e - 1) \o Repeat(FullSlice, ndim - given)
                \o SubSeq(sels, e + 1, Len(sels))
       ELSE sels \o Repeat(FullSlice, ndim - given)

\* ndarray.__getitem__ with integers, slices and Ellipsis.
\* [err, grid]: err is "IndexError" when numpy rejects the expression.
NumpyGetItem(grid, sels) ==
    LET ndim == Len(grid.shape)
        ex == NpExpand(ndim, sels)
        kept == KeptPositions(ex)
        shape == [q \in 1..Len(kept) |-> SliceLen(grid.shape[kept[q]], ex[kept[q]])]
        QOf(p) == CHOOSE q \in 1..Len(kept) : kept[q] = p
    IN IF \/ NumEllipsis(sels) > 1
          \/ Len(sels) - NumEllipsis(sels) > ndim
          \/ \E p \in 1..ndim : ex[p].k = "int" /\ ~IntInRange(grid.shape[p], ex[p].a[1])
       THEN [err |-> "IndexError", grid |-> grid]
       ELSE [err |-> "",
             grid |-> [shape |-> shape,
                       data |-> [j \in IndexSet(shape) |->
                           grid.data[[p \in 1..ndim |->
                               IF ex[p].k = "int"
                               THEN NormInt(grid.shape[p], ex[p].a[1])
                               ELSE SliceStart(grid.shape[p], ex[p])
                                        + j[QOf(p)] * SliceStep(ex[p])]]]]]

(***************************************************************************)
(* Axis entries.  An entry of a container's axes list is None, a 1-d       *)
(* coordinate array, or (after load_npz) a 0-d object array wrapping None. *)
(***************************************************************************)
NoAxis == [kind |-> "none", v |-> <<>>]
ArrayAxis(v) == [kind |-> "array", v |-> v]
ObjectScalarAxis == [kind |-> "obj0d", v |-> <<>>]

\* ndarray.__getitem__ on a coordinate array with one selector
AxisIndexFails(ax, sel) ==
    \/ ax.kind = "obj0d"
    \/ ax.kind = "array" /\ sel.k = "int" /\ ~IntInRange(Len(ax.v), sel.a[1])
AxisSlice(ax, sel) ==
    ArrayAxis([j \in 1..SliceLen(Len(ax.v), sel) |->
                  ax.v[SliceStart(Len(ax.v), sel) + (j - 1) * SliceStep(sel) + 1]])
AxisValue(ax, sel) == ax.v[NormInt(Len(ax.v), sel.a[1]) + 1]

(***************************************************************************)
(* NumericalData.                                                          *)
(*   [data_array, axes, axes_names, reduced_axes, metadata]                *)
(* axes and axes_names are sequences (axes_names of None / Some(name));    *)
(* reduced_axes is an index into lists and metadata an index into dicts.   *)
(***************************************************************************)
DimAt(p) == IF p % 2 = 1 THEN 2 ELSE 3
Shape(r) == [p \in 1..r |-> DimAt(p)]
\* the grid of the serial-th directly constructed container: every cell is unique
FreshGrid(serial, r) ==
    [shape |-> Shape(r), data |-> [idx \in IndexSet(Shape(r)) |-> <<serial>> \o idx]]
\* the coordinate array given for axis position p (0-based) of length d
Coords(p, d) == [j \in 1..d |-> 10 * (p + 1) + j - 1]
AxisNames == <<"time", "wavelength", "depth", "extra">>

DictVal(v) == [t |-> "val", v |-> v]
DictRef(d) == [t |-> "ref", v |-> d]
EmptyDict == [k \in {} |-> DictVal(0)]

\* NumericalData.set_axis
SetAxis(axes, ax_index, ax_values) ==
    LET padded == IF Len(axes) < ax_index + 1
                  THEN axes \o Repeat(NoAxis, ax_index + 1 - Len(axes))
                  ELSE axes
    IN [padded EXCEPT ![ax_index + 1] = ArrayAxis(ax_values)]

\* NumericalData.__init__: [obj, lists, dicts] (a missing reduced_axes or
\* metadata argument allocates a new empty list or dict)
Construct(ls, ds, data_array, x_axis, y_axis, z_axis, axes, axes_names, reduced_axes, metadata) ==
    LET a0 == IF axes # None THEN axes[1] ELSE <<>>
        a1 == IF x_axis # None THEN SetAxis(a0, 0, x_axis[1]) ELSE a0
        a2 == IF y_axis # None THEN SetAxis(a1, 1, y_axis[1]) ELSE a1
        a3 == IF z_axis # None THEN SetAxis(a2, 2, z_axis[1]) ELSE a2
        ls1 == IF reduced_axes # None THEN ls ELSE Append(ls, <<>>)
        ds1 == IF metadata # None THEN ds ELSE Append(ds, EmptyDict)
    IN [obj |-> [data_array |-> data_array,
                 axes |-> a3,
                 axes_names |-> IF axes_names # None THEN axes_names[1] ELSE <<>>,
                 reduced_axes |-> IF reduced_axes # None THEN reduced_axes[1] ELSE Len(ls1),
                 metadata |-> IF metadata # None THEN metadata[1] ELSE Len(ds1)],
        lists |-> ls1,
        dicts |-> ds1]

\* IndexLocator.__getitem__, lines 22-41: the index expression regularised to
\* one selector per grid dimension.  A bare selector s and the 1-tuple (s,)
\* are both <<s>>: lines 22-25 turn them into the same list.
ExpandItem(ndim, sels) ==
    LET sl1 == IF Len(sels) < ndim /\ NumEllipsis(sels) = 0
               THEN Append(sels, EllipsisSel) ELSE sels
        e_idx == CHOOSE i \in DOMAIN sl1 :
                    /\ sl1[i].k = "ellipsis"
                    /\ \A j \in 1..(i - 1) : sl1[j].k # "ellipsis"
        n_expanded == ndim - (Len(sl1) - 1)
        sl2 == IF NumEllipsis(sl1) = 1
               THEN SubSeq(sl1, 1, e_idx - 1) \o Repeat(FullSlice, Max(n_expanded, 0))
                        \o SubSeq(sl1, e_idx + 1, Len(sl1))
               ELSE sl1
    IN IF NumEllipsis(sl1) > 1 THEN [err |-> "ValueError", slice_list |-> sl1]
       ELSE IF Len(sl2) # ndim THEN [err |-> "ValueError", slice_list |-> sl2]
       ELSE [err |-> "", slice_list |-> sl2]

\* lines 52-55: the parent's axis at position i (1-based here) under selector sel
HasAxis(parent, i) == i <= Len(parent.axes) /\ parent.axes[i].kind # "none"
\* mutant of ReducedEntry: the position is recorded 1-based
ReducedEntryOneBased(parent, i, sel) ==
    [axis_name |-> IF i <= Len(parent.axes_names) THEN parent.axes_names[i] ELSE None,
     axis |-> i,
     index |-> sel.a[1],
     value |-> IF HasAxis(parent, i) THEN Some(AxisValue(parent.axes[i], sel)) ELSE None]
\* lines 57-63: the log entry for an integer selector at position i
ReducedEntry(parent, i, sel) ==
    [axis_name |-> IF i <= Len(parent.axes_names) THEN parent.axes_names[i] ELSE None,
     axis |-> i - 1,
     index |-> sel.a[1],
     value |-> IF HasAxis(parent, i) THEN Some(AxisValue(parent.axes[i], sel)) ELSE None]

\* lines 51-67: the entries appended for the integer selectors at positions 1..n
NewEntries(parent, slice_list, n) ==
    LET F[i \in 0..n] ==
            IF i = 0 THEN <<>>
            ELSE IF slice_list[i].k = "int"
                 THEN Append(F[i - 1], ReducedEntry(parent, i, slice_list[i]))
                 ELSE F[i - 1]
    IN F[n]
\* mutant of SubAxes: a dimension without coordinates gets no entry
SubAxesLabelledOnly(parent, slice_list) ==
    LET kept == SelectSeq(KeptPositions(slice_list), LAMBDA p : HasAxis(parent, p))
    IN [q \in 1..Len(kept) |-> AxisSlice(parent.axes[kept[q]], slice_list[kept[q]])]
\* lines 51-55, 64-65: the axes list of the new container
SubAxes(parent, slice_list) ==
    LET kept == KeptPositions(slice_list)
    IN [q \in 1..Len(kept) |->
            IF HasAxis(parent, kept[q])
            THEN AxisSlice(parent.axes[kept[q]], slice_list[kept[q]])
            ELSE NoAxis]
SubAxesNames(parent, slice_list) ==
    LET kept == SelectSeq(KeptPositions(slice_list), LAMBDA p : p <= Len(parent.axes_names))
    IN [q \in 1..Len(kept) |-> parent.axes_names[kept[q]]]

\* dict.copy(): a new dict object holding the same values (nested dicts shared)
ShallowCopy(ds, d) == Append(ds, ds[d])

\* IndexLocator.__getitem__ from line 20 on, sub being the outcome of line 18:
\* [err, obj, lists, dicts].  On an error no container is built; entries
\* appended before the failing position stay in the list.
IlocFrom(ls, ds, parent, item, sub) ==
    LET ndim == Len(parent.data_array.shape)
        ex == ExpandItem(ndim, item)
        sl == ex.slice_list
        bad == {i \in 1..ndim : HasAxis(parent, i) /\ AxisIndexFails(parent.axes[i], sl[i])}
        firstBad == CHOOSE i \in bad : \A j \in bad : i <= j
        reduced_axes == parent.reduced_axes
        done == IF bad = {} THEN ndim ELSE firstBad - 1
        ls1 == [ls EXCEPT ![reduced_axes] = ls[reduced_axes] \o NewEntries(parent, sl, done)]
        built == Construct(ls1, ShallowCopy(ds, parent.metadata), sub.grid,
                           None, None, None,
                           Some(SubAxes(parent, sl)), Some(SubAxesNames(parent, sl)),
                           Some(reduced_axes), Some(Len(ds) + 1))
    IN IF sub.err # "" THEN [err |-> sub.err, obj |-> parent, lists |-> ls, dicts |-> ds]
       ELSE IF ex.err # "" THEN [err |-> ex.err, obj |-> parent, lists |-> ls, dicts |-> ds]
       ELSE IF bad # {} THEN [err |-> "IndexError", obj |-> parent, lists |-> ls1, dicts |-> ds]
       ELSE [err |-> "", obj |-> built.obj, lists |-> built.lists, dicts |-> built.dicts]

\* mutant of IlocGetItem: only the first selector is applied to the grid
IlocGetItemFirstSelector(ls, ds, parent, item) ==
    IlocFrom(ls, ds, parent, item,
             NumpyGetItem(parent.data_array, SubSeq(item, 1, Min(1, Len(item)))))
\* mutant of IlocGetItem: the selector list is examined before the grid is indexed
IlocGetItemListFirst(ls, ds, parent, item) ==
    IF ExpandItem(Len(parent.data_array.shape), item).err # ""
    THEN [err |-> "ValueError", obj |-> parent, lists |-> ls, dicts |-> ds]
    ELSE IlocFrom(ls, ds, parent, item, NumpyGetItem(parent.data_array, item))
\* IndexLocator.__getitem__: line 18 applies the expression to the grid as given
IlocGetItem(ls, ds, parent, item) ==
    IlocFrom(ls, ds, parent, item, NumpyGetItem(parent.data_array, item))

(***************************************************************************)
(* NumericalData.stack.  An input is [raw, id]: the container objs[id], or *)
(* (raw) that container's grid handed over as a plain array.               *)
(***************************************************************************)
\* the key under which input position i (0-based) files its metadata
PosKey(i) == <<"0", "1", "2", "3">>[i + 1]

\* list.insert(i, x)
ListInsert(l, i, x) ==
    LET at == IF i < 0 THEN Max(Len(l) + i, 0) ELSE Min(i, Len(l))
    IN SubSeq(l, 1, at) \o <<x>> \o SubSeq(l, at + 1, Len(l))

\* np.stack(arrays, axis): [err, grid]
NpStack(arrays, axis) ==
    LET n == Len(arrays)
        r == Len(arrays[1].shape)
        k == IF axis < 0 THEN axis + r + 1 ELSE axis
        shape == ListInsert(arrays[1].shape, k, n)
        Without(idx) == SubSeq(idx, 1, k) \o SubSeq(idx, k + 2, Len(idx))
    IN IF n = 0 THEN [err |-> "ValueError", grid |-> [shape |-> <<>>, data |-> <<>>]]
       ELSE IF \E i \in 1..n : arrays[i].shape # arrays[1].shape
       THEN [err |-> "ValueError", grid |-> arrays[1]]
       ELSE IF axis < 0 - (r + 1) \/ axis > r
       THEN [err |-> "AxisError", grid |-> arrays[1]]
       ELSE [err |-> "",
             grid |-> [shape |-> shape,
                       data |-> [idx \in IndexSet(shape) |->
                                    arrays[idx[k + 1] + 1].data[Without(idx)]]]]

\* mutant of InsertIndex: a negative position is counted from the end of the
\* list before the insertion
InsertIndexFromOldEnd(length, axis) == IF axis < 0 THEN length + axis ELSE axis
\* lines 182-184 and 193-195: where the new axis (name) goes in a list of this length
InsertIndex(length, axis) == IF axis < 0 THEN length + 1 + axis ELSE axis

\* lines 177-180 and 188-191: the first input's list, padded with None up to ndim
PadTo(l, ndim, filler) == IF ndim - Len(l) > 0 THEN l \o Repeat(filler, ndim - Len(l)) ELSE l

\* NumericalData.stack: [err, obj, lists, dicts]
Stack(ls, ds, os, data_objs, axis, new_axis, new_axis_name, retain_individual_metadata) ==
    LET n == Len(data_objs)
        containers == {i \in 1..n : ~data_objs[i].raw}
        first == CHOOSE i \in containers : \A j \in containers : i <= j
        data_arrays == [i \in 1..n |-> os[data_objs[i].id].o.data_array]
        individual_metadata ==
            [k \in {PosKey(i - 1) : i \in containers} |->
                DictRef(os[data_objs[CHOOSE i \in containers : PosKey(i - 1) = k].id].o.metadata)]
        base == IF containers # {} THEN ds[os[data_objs[first].id].o.metadata] ELSE EmptyDict
        new_metadata ==
            IF retain_individual_metadata
            THEN [k \in DOMAIN base \cup {"_individual_metadata"} |->
                    IF k = "_individual_metadata" THEN DictRef(Len(ds) + 1) ELSE base[k]]
            ELSE base
        ds1 == IF retain_individual_metadata
               THEN ds \o <<individual_metadata, new_metadata>>
               ELSE Append(ds, new_metadata)
        stacked == NpStack(data_arrays, axis)
        head == os[data_objs[1].id].o
        ndim == Len(head.data_array.shape)
        new_axes == LET padded == PadTo(head.axes, ndim, NoAxis)
                    IN ListInsert(padded, InsertIndex(Len(padded), axis),
                                  IF new_axis # None THEN ArrayAxis(new_axis[1]) ELSE NoAxis)
        new_axnames == LET padded == PadTo(head.axes_names, ndim, None)
                       IN ListInsert(padded, InsertIndex(Len(padded), axis), new_axis_name)
        built == Construct(ls, ds1, stacked.grid, None, None, None,
                           Some(new_axes), Some(new_axnames), None, Some(Len(ds1)))
    IN IF stacked.err # "" THEN [err |-> stacked.err, obj |-> head, lists |-> ls, dicts |-> ds]
       ELSE IF data_objs[1].raw
       THEN [err |-> "AttributeError", obj |-> head, lists |-> ls, dicts |-> ds]
       ELSE [err |-> "", obj |-> built.obj, lists |-> built.lists, dicts |-> built.dicts]

(***************************************************************************)
(* save_npz / load_npz.  The archive holds values, not references: the     *)
(* grid, num_axes, one slot per axis, the axes_data record and the         *)
(* metadata (as the dict heap at the time of the save and the root in it). *)
(***************************************************************************)
\* np.savez stores np.asanyarray(value): None becomes a 0-d object array
SavedAxis(ax) == IF ax.kind = "none" THEN ObjectScalarAxis ELSE ax

\* the lambda of save_npz, lines 212-215: an Enum leaf becomes its name as text
StringifyEnum(x) == IF x.t = "enum" THEN [t |-> "str", v |-> x.v] ELSE x
\* util.map_nested_dict(f, d): f applied to every leaf of the nested dict
MapNestedDict(ds) ==
    [d \in DOMAIN ds |-> [k \in DOMAIN ds[d] |->
        IF ds[d][k].t = "ref" THEN ds[d][k] ELSE StringifyEnum(ds[d][k])]]

\* copy.deepcopy / unpickling of the dict src_root of heap src: the copies are
\* appended to heap ds.  todo pairs dicts still to copy with their copy's index.
RECURSIVE CopyInto(_, _, _)
CopyInto(src, ds, todo) ==
    IF todo = <<>> THEN ds
    ELSE LET from == todo[1][1]
             to == todo[1][2]
             refs == SetToSeq({k \in DOMAIN src[from] : src[from][k].t = "ref"})
             slot(k) == Len(ds) + (CHOOSE i \in DOMAIN refs : refs[i] = k)
             copy == [k \in DOMAIN src[from] |->
                        IF src[from][k].t = "ref" THEN DictRef(slot(k)) ELSE src[from][k]]
         IN CopyInto(src,
                     [ds EXCEPT ![to] = copy] \o [i \in DOMAIN refs |-> EmptyDict],
                     Tail(todo) \o [i \in DOMAIN refs |-> <<src[from][refs[i]].v, Len(ds) + i>>])
DeepCopy(src, src_root, ds) == CopyInto(src, Append(ds, EmptyDict), <<<<src_root, Len(ds) + 1>>>>)

\* save_npz(file): the archive's content
SaveNpz(ls, ds, x) ==
    [data_array |-> x.data_array,
     num_axes |-> Len(x.axes),
     axis |-> [i \in 1..Len(x.axes) |-> SavedAxis(x.axes[i])],
     axes_data |-> [axes_names |-> x.axes_names, reduced_axes |-> ls[x.reduced_axes]],
     metadata |-> [dicts |-> MapNestedDict(ds), root |-> x.metadata]]

\* load_npz(file): [obj, lists, dicts]
LoadNpz(ls, ds, npz_data) ==
    Construct(Append(ls, npz_data.axes_data.reduced_axes),
              DeepCopy(npz_data.metadata.dicts, npz_data.metadata.root, ds),
              npz_data.data_array, None, None, None,
              Some([i \in 1..npz_data.num_axes |-> npz_data.axis[i]]),
              Some(npz_data.axes_data.axes_names),
              Some(Len(ls) + 1), Some(Len(ds) + 1))

(***************************************************************************)
(* Inputs of the container operations.                                     *)
(***************************************************************************)
IntSels == {IntSel(0), IntSel(-1)}
SliceSels == {FullSlice, SliceSel(Some(1), None, None)}
Selectors == IntSels \cup SliceSels \cup {EllipsisSel}
SeqsUpTo(S, n) == UNION {[1..m -> S] : m \in 0..n}
\* index expressions for a grid of rank r: every expression of up to r + 1 selectors
Items(r) == SeqsUpTo(Selectors, r + 1)

\* the metadata a caller passes: {'setting1': serial, 'settings444': {'eggd': 5}}
CallerMetadata(ds, serial) ==
    ds \o << [k \in {"eggd"} |-> DictVal(5)],
             [k \in {"setting1", "settings444"} |->
                 IF k = "setting1" THEN DictVal(serial) ELSE DictRef(Len(ds) + 1)] >>

NoOp == [op |-> "none", err |-> ""]

(***************************************************************************)
(* Actions on containers.                                                  *)
(***************************************************************************)
\* NumericalData(grid, x_axis=.., y_axis=.., z_axis=.., axes_names=.., metadata=..)
New(r, labelled, nlen) ==
    LET serial == Len(objs) + 1
        ax(p) == IF p \in labelled THEN Some(Coords(p, DimAt(p + 1))) ELSE None
        ds1 == CallerMetadata(dicts, serial)
        built == Construct(lists, ds1, FreshGrid(serial, r), ax(0), ax(1), ax(2), None,
                           Some(SubSeq([i \in 1..Len(AxisNames) |-> Some(AxisNames[i])], 1, nlen)),
                           None, Some(Len(ds1)))
    IN /\ quota.new > 0
       /\ quota' = [quota EXCEPT !.new = @ - 1]
       /\ objs' = Append(objs, [src |-> "new", o |-> built.obj])
       /\ lists' = built.lists
       /\ dicts' = built.dicts
       /\ last' = [op |-> "new", err |-> "", child |-> serial]
       /\ UNCHANGED <<archive, regVars, visaVars>>

\* Y = X.iloc[item]
Iloc(x, item) ==
    LET r == IlocGetItem(lists, dicts, objs[x].o, item)
    IN /\ quota.iloc > 0
       /\ quota' = [quota EXCEPT !.iloc = @ - 1]
       /\ objs' = IF r.err = "" THEN Append(objs, [src |-> "iloc", o |-> r.obj]) ELSE objs
       /\ lists' = r.lists
       /\ dicts' = r.dicts
       /\ last' = [op |-> "iloc", err |-> r.err, parent |-> x, item |-> item,
                   child |-> Len(objs) + 1,
                   pre_objs |-> objs, pre_lists |-> lists, pre_dicts |-> dicts]
       /\ UNCHANGED <<archive, regVars, visaVars>>

\* NumericalData.stack(data_objs, axis=.., new_axis=.., new_axis_name=.., ...)
StackCall(data_objs, axis, labelled, retain) ==
    LET r == Stack(lists, dicts, objs, data_objs, axis,
                   IF labelled THEN Some([j \in 1..Len(data_objs) |-> 5 + j]) ELSE None,
                   IF labelled THEN Some("new_wavelength") ELSE None,
                   retain)
    IN /\ quota.stack > 0
       /\ quota' = [quota EXCEPT !.stack = @ - 1]
       /\ objs' = IF r.err = "" THEN Append(objs, [src |-> "stack", o |-> r.obj]) ELSE objs
       /\ lists' = r.lists
       /\ dicts' = r.dicts
       /\ last' = [op |-> "stack", err |-> r.err, data_objs |-> data_objs, axis |-> axis,
                   labelled |-> labelled, retain |-> retain, child |-> Len(objs) + 1,
                   pre_objs |-> objs, pre_lists |-> lists, pre_dicts |-> dicts]
       /\ UNCHANGED <<archive, regVars, visaVars>>

\* X.save_npz(file)
Save(x) ==
    /\ quota.save > 0
    /\ quota' = [quota EXCEPT !.save = @ - 1]
    /\ archive' = Some([npz |-> SaveNpz(lists, dicts, objs[x].o),
                        \* not in the file: what was saved, for the properties
                        of |-> objs[x].o, lists |-> lists, dicts |-> dicts])
    /\ last' = [op |-> "save", err |-> "", parent |-> x,
                pre_objs |-> objs, pre_lists |-> lists, pre_dicts |-> dicts]
    /\ UNCHANGED <<objs, lists, dicts, regVars, visaVars>>

\* NumericalData.load_npz(file), once a file has been written
Load ==
    /\ quota.load > 0
    /\ archive # None
    /\ quota' = [quota EXCEPT !.load = @ - 1]
    /\ LET built == LoadNpz(lists, dicts, archive[1].npz)
       IN /\ objs' = Append(objs, [src |-> "load", o |-> built.obj])
          /\ lists' = built.lists
          /\ dicts' = built.dicts
    /\ last' = [op |-> "load", err |-> "", child |-> Len(objs) + 1,
                pre_objs |-> objs, pre_lists |-> lists, pre_dicts |-> dicts]
    /\ UNCHANGED <<archive, regVars, visaVars>>

StackInputs == {[raw |-> b, id |-> x] : b \in BOOLEAN, x \in DOMAIN objs}
StackStep ==
    \E data_objs \in SeqsUpTo(StackInputs, MaxStackInputs) \ {<<>>} :
        LET r == Len(objs[data_objs[1].id].o.data_array.shape)
        IN \E axis \in (0 - (r + 2))..(r + 1), labelled \in BOOLEAN, retain \in BOOLEAN :
               StackCall(data_objs, axis, labelled, retain)
SaveStep == \E x \in DOMAIN objs : Save(x)

NewStep ==
    \E r \in 0..MaxRank :
        \E labelled \in SUBSET (0..(Min(r, 3) - 1)), nlen \in 0..r :
            New(r, labelled, nlen)
IlocStep == \E x \in DOMAIN objs : \E item \in Items(Len(objs[x].o.data_array.shape)) : Iloc(x, item)

\* no VisaDevice built, no VISA call made
NoVisa ==
    /\ inst = <<>>
    /\ odicts = <<>>
    /\ vlast = NoOp
    /\ vq = [new |-> 0, debug |-> 0, del |-> 0, access |-> 0, option |-> 0]
    /\ wait = [pc |-> "idle"]

InitData(q) ==
    /\ NoVisa
    /\ quota = q
    /\ objs = <<>>
    /\ archive = None
    /\ lists = <<>>
    /\ dicts = <<>>
    /\ last = NoOp
\* no configuration, no registry call: the registry as the container specifications leave it
InitReg ==
    /\ hwconf = [devices |-> <<>>, modules |-> {}, classes |-> {}]
    /\ cache = <<>>
    /\ devs = <<>>
    /\ imported = {}
    /\ ctorRuns = <<>>
    /\ optedOut = FALSE
    /\ returned = <<>>
    /\ calls = 0
    /\ hierarchy = <<>>
    /\ rlast = NoOp

\* indexing: one constructed container, then iloc on it and on its results
InitIndex == InitData([new |-> 1, iloc |-> MaxIloc, stack |-> 0, save |-> 0, load |-> 0]) /\ InitReg
NextIndex == NewStep \/ IlocStep
SpecIndex == InitIndex /\ [][NextIndex]_vars

\* stacking: up to MaxNew constructed containers, then one stack
InitStack == InitData([new |-> MaxNew, iloc |-> 0, stack |-> 1, save |-> 0, load |-> 0]) /\ InitReg
NextStack == NewStep \/ StackStep
SpecStack == InitStack /\ [][NextStack]_vars

\* persistence: a constructed container, indexed or not, is saved and loaded back
InitPersist == InitData([new |-> 1, iloc |-> 1, stack |-> 0, save |-> 1, load |-> 1]) /\ InitReg
NextPersist == NewStep \/ IlocStep \/ SaveStep \/ Load
SpecPersist == InitPersist /\ [][NextPersist]_vars

(***************************************************************************)
(* Properties of indexing.                                                 *)
(***************************************************************************)
IlocDone == last.op = "iloc" /\ last.err = ""
IlocParent == objs[last.parent].o
IlocChild == objs[last.child].o
IlocResults == {c \in DOMAIN objs : objs[c].src = "iloc"}
IntPositions(sels) == {p \in DOMAIN sels : sels[p].k = "int"}

\* An index expression with its ellipsis, or else its missing tail, written
\* out as full slices: one selector per dimension of a rank-r grid.
Expanded(r, item) ==
    LET given == Len(item) - NumEllipsis(item)
        before == IF NumEllipsis(item) = 0 THEN Len(item)
                  ELSE (CHOOSE i \in DOMAIN item : item[i].k = "ellipsis") - 1
    IN [p \in 1..r |->
            IF p <= before THEN item[p]
            ELSE IF p <= before + (r - given) THEN FullSlice
            ELSE item[p - (r - given) + NumEllipsis(item)]]
\* integers, slices and at most one ellipsis, no more selectors than dimensions,
\* every integer within its dimension
ValidItem(shape, item) ==
    /\ NumEllipsis(item) <= 1
    /\ Len(item) - NumEllipsis(item) <= Len(shape)
    /\ \A p \in 1..Len(shape) :
            LET s == Expanded(Len(shape), item)[p]
            IN s.k = "int" => s.a[1] \in (0 - shape[p])..(shape[p] - 1)

\* C1 (as claimed): X.iloc[I] leaves X.reduced_axes, X.axes and X.axes_names as
\* they were, and no two containers obtained by indexing share a reduced_axes
\* log with each other or with their parent.
C1_IlocLeavesParentAlone ==
    /\ IlocDone =>
            /\ objs[last.parent] = last.pre_objs[last.parent]
            /\ lists[IlocParent.reduced_axes] = last.pre_lists[IlocParent.reduced_axes]
            /\ IlocChild.reduced_axes # IlocParent.reduced_axes
    /\ \A c, d \in IlocResults : c # d => objs[c].o.reduced_axes # objs[d].o.reduced_axes

\* C2: for a valid index expression I on a rank-R container X, X.iloc[I] succeeds,
\* its grid has one dimension per non-integer selector of the expanded I and
\* holds, cell by cell, the cells X.data_array[I] selects.
C2_IlocGridMatches ==
    (last.op = "iloc" /\ ValidItem(last.pre_objs[last.parent].o.data_array.shape, last.item)) =>
        /\ last.err = ""
        /\ LET X == IlocParent.data_array
               Y == IlocChild.data_array
               ex == Expanded(Len(X.shape), last.item)
               keep == SetToSeq({p \in DOMAIN ex : ex[p].k # "int"})
               \* the dimensions of Y, in order: the non-integer positions of I
               rank == Cardinality({p \in DOMAIN ex : ex[p].k # "int"})
               dimOf(p) == Cardinality({q \in DOMAIN ex : q < p /\ ex[q].k # "int"}) + 1
           IN /\ Len(Y.shape) = rank
              /\ \A p \in DOMAIN ex : ex[p].k # "int" =>
                     Y.shape[dimOf(p)] = SliceLen(X.shape[p], ex[p])
              /\ DOMAIN Y.data = IndexSet(Y.shape)
              /\ \A j \in DOMAIN Y.data :
                     Y.data[j] = X.data[[p \in DOMAIN ex |->
                         IF ex[p].k = "int"
                         THEN (IF ex[p].a[1] < 0 THEN ex[p].a[1] + X.shape[p] ELSE ex[p].a[1])
                         ELSE SliceStart(X.shape[p], ex[p]) + j[dimOf(p)] * SliceStep(ex[p])]]
\* C2 witness: an expression with an ellipsis, an integer and a proper slice has
\* been applied to a rank-2 grid and left a non-empty rank-1 grid.
C2_Witness ==
    /\ IlocDone
    /\ NumEllipsis(last.item) = 1
    /\ \E p \in DOMAIN last.item : last.item[p] = IntSel(-1)
    /\ Len(IlocParent.data_array.shape) = 2
    /\ Len(IlocChild.data_array.shape) = 1
    /\ IlocChild.data_array.shape[1] > 1

StackCalled == last.op = "stack"
StackInputGrid(i) == last.pre_objs[last.data_objs[i].id].o.data_array
StackRank == Len(StackInputGrid(1).shape)
StackContainers == {i \in DOMAIN last.data_objs : ~last.data_objs[i].raw}
StackSameShape == \A i \in DOMAIN last.data_objs : StackInputGrid(i).shape = StackInputGrid(1).shape
StackAxisInRange == last.axis >= 0 - (StackRank + 1) /\ last.axis <= StackRank
\* the position (0-based) of the new dimension in the result
StackAt == IF last.axis < 0 THEN last.axis + StackRank + 1 ELSE last.axis
StackResult == objs[last.child].o
\* a list of the result with the new dimension's entry taken out
WithoutNew(l) == SubSeq(l, 1, StackAt) \o SubSeq(l, StackAt + 2, Len(l))
\* the axis list of container X, None standing for every axis it does not list
AxesPadded(X, r) == [p \in 1..r |-> IF p <= Len(X.axes) THEN X.axes[p] ELSE NoAxis]
NamesPadded(X, r) == [p \in 1..r |-> IF p <= Len(X.axes_names) THEN X.axes_names[p] ELSE None]
StackNewAxis ==
    IF last.labelled THEN ArrayAxis([j \in 1..Len(last.data_objs) |-> 5 + j]) ELSE NoAxis
StackNewName == IF last.labelled THEN Some("new_wavelength") ELSE None
\* the result's axes and names are the given container's, with v and n at the new dimension
StackAxesFrom(X) ==
    /\ Len(StackResult.axes) = StackRank + 1
    /\ Len(StackResult.axes_names) = StackRank + 1
    /\ StackResult.axes[StackAt + 1] = StackNewAxis
    /\ StackResult.axes_names[StackAt + 1] = StackNewName
    /\ WithoutNew(StackResult.axes) = AxesPadded(X, StackRank)
    /\ WithoutNew(StackResult.axes_names) = NamesPadded(X, StackRank)

\* C4: stacking equally shaped rank-R inputs, the first of them a container, along
\* axis k in [-(R+1), R] gives a rank R+1 grid that holds input i at index i of the
\* new dimension, and the new axis and its name sit at that dimension's position
\* among the first input's axes and names (padded with None up to R).
C4_StackInsertsAxis ==
    (StackCalled /\ ~last.data_objs[1].raw /\ StackSameShape /\ StackAxisInRange) =>
        /\ last.err = ""
        /\ LET Y == StackResult.data_array
           IN /\ Len(Y.shape) = StackRank + 1
              /\ Y.shape[StackAt + 1] = Len(last.data_objs)
              /\ WithoutNew(Y.shape) = StackInputGrid(1).shape
              /\ DOMAIN Y.data = IndexSet(Y.shape)
              /\ \A idx \in DOMAIN Y.data :
                     Y.data[idx] = StackInputGrid(idx[StackAt + 1] + 1).data[WithoutNew(idx)]
        /\ StackAxesFrom(last.pre_objs[last.data_objs[1].id].o)
\* C4 witness: two different rank-2 containers, the first listing fewer axes than
\* its rank, have been stacked along axis -2 with a labelled, named new axis.
C4_Witness ==
    /\ StackCalled /\ last.err = ""
    /\ Len(last.data_objs) = 2
    /\ ~last.data_objs[1].raw /\ ~last.data_objs[2].raw
    /\ last.data_objs[1].id # last.data_objs[2].id
    /\ StackRank = 2
    /\ last.axis = -2
    /\ last.labelled
    /\ Len(last.pre_objs[last.data_objs[1].id].o.axes) = 1
    /\ StackResult.axes[2] = StackNewAxis

\* C5 (as claimed): stack succeeds on any equally shaped inputs that include a
\* container, wherever it sits; the result's metadata is a copy of the first
\* container's (plus, if asked for, every container's metadata under
\* '_individual_metadata', keyed by input position) and its axes are built from
\* the first container's.
C5_StackAcceptsAnyMix ==
    (StackCalled /\ StackContainers # {} /\ StackSameShape /\ StackAxisInRange) =>
        /\ last.err = ""
        /\ LET first == CHOOSE i \in StackContainers : \A j \in StackContainers : i <= j
               X == last.pre_objs[last.data_objs[first].id].o
               base == last.pre_dicts[X.metadata]
               md == dicts[StackResult.metadata]
           IN /\ StackResult.metadata # X.metadata
              /\ \A k \in DOMAIN base : k \in DOMAIN md /\ md[k] = base[k]
              /\ DOMAIN md = DOMAIN base \cup
                     (IF last.retain THEN {"_individual_metadata"} ELSE {})
              /\ last.retain =>
                     /\ md["_individual_metadata"].t = "ref"
                     /\ LET each == dicts[md["_individual_metadata"].v]
                        IN /\ DOMAIN each = {PosKey(i - 1) : i \in StackContainers}
                           /\ \A i \in StackContainers :
                                  each[PosKey(i - 1)] =
                                      DictRef(last.pre_objs[last.data_objs[i].id].o.metadata)
              /\ StackAxesFrom(X)

(***************************************************************************)
(* Properties of persistence.                                              *)
(***************************************************************************)
\* two nested dicts hold the same keys and values, at every depth
RECURSIVE DictEq(_, _, _, _)
DictEq(h1, a, h2, b) ==
    /\ DOMAIN h1[a] = DOMAIN h2[b]
    /\ \A k \in DOMAIN h1[a] :
           /\ h1[a][k].t = h2[b][k].t
           /\ IF h1[a][k].t = "ref"
              THEN DictEq(h1, h1[a][k].v, h2, h2[b][k].v)
              ELSE h1[a][k].v = h2[b][k].v

\* C6 (as claimed): the container load_npz returns has the grid, every axes
\* entry, the axes_names, the reduced_axes and the metadata that the saved
\* container had when it was saved.
C6_LoadRestoresSaved ==
    last.op = "load" =>
        LET X == archive[1].of
            Y == objs[last.child].o
        IN /\ Y.data_array = X.data_array
           /\ Len(Y.axes) = Len(X.axes)
           /\ \A i \in DOMAIN X.axes : Y.axes[i] = X.axes[i]
           /\ Y.axes_names = X.axes_names
           /\ lists[Y.reduced_axes] = archive[1].lists[X.reduced_axes]
           /\ DictEq(dicts, Y.metadata, archive[1].dicts, X.metadata)

(***************************************************************************)
(* The device registry (hw/device.py).                                     *)
(* A driver reference is [cls, path]: a class object (cls), or a string    *)
(* whose dot-separated parts are path.  A module is the sequence of its    *)
(* parts, so "m is driver_module or driver_module starts with m + '.'" is  *)
(* "m is a prefix of driver_module, part by part".                         *)
(***************************************************************************)
DriverClass(name) == [cls |-> TRUE, path |-> <<name>>]
DriverString(path) == [cls |-> FALSE, path |-> path]

DeviceIds == {"scope1", "esa"}
\* what can be imported: the drivers shipped in pylabframe.hw.drivers, and the
\* modules on the import path
ShippedDrivers == {"keysightvisa", "santecvisa", "siglentvisa", "tekvisa", "tekvisa_util",
                   "thorlabsvisa"}
TopLevelModules == {<<"mydrivers">>, <<"mydrivers", "lasers">>, <<"os">>}

IsPrefix(m, module) == Len(m) <= Len(module) /\ SubSeq(module, 1, Len(m)) = m

\* lines 55-57: the module part of a dotted driver string
DriverModule(path) == SubSeq(path, 1, Len(path) - 1)
\* lines 60-64: is the module allow-listed in drivers.modules
IsCustomDriver(conf, driver_module) ==
    \E m \in conf.modules : driver_module = m \/ (IsPrefix(m, driver_module) /\ m # driver_module)

\* lines 45-71: [err, imports]: the error raised while resolving the driver, and
\* the modules the exec statements import
ResolveDriver(conf, driver) ==
    IF driver.cls THEN [err |-> "", imports |-> {}]
    ELSE IF Len(driver.path) = 1 /\ driver.path[1] \in conf.classes
    THEN [err |-> "", imports |-> {}]
    ELSE IF Len(driver.path) = 1 THEN [err |-> "RuntimeError", imports |-> {}]
    ELSE LET driver_module == DriverModule(driver.path)
         IN IF IsCustomDriver(conf, driver_module)
            THEN \* exec("import <driver_module>")
                 IF driver_module \in TopLevelModules
                 THEN [err |-> "", imports |-> {[from |-> "", module |-> driver_module]}]
                 ELSE [err |-> "ImportError", imports |-> {}]
            ELSE \* exec("from .drivers import <driver_module>")
                 IF Len(driver_module) > 1 THEN [err |-> "SyntaxError", imports |-> {}]
                 ELSE IF driver_module[1] \in ShippedDrivers
                 THEN [err |-> "", imports |-> {[from |-> ".drivers", module |-> driver_module]}]
                 ELSE [err |-> "ImportError", imports |-> {}]

\* Device.__init__ line 128 followed by VisaDevice.__init__ line 290:
\* [err, dev].  opens tells whether the transport can be opened.
ConstructDevice(cch, id, error_on_double_connect, opens) ==
    IF id \in DOMAIN cch /\ error_on_double_connect
    THEN [err |-> "RuntimeError", dev |-> <<>>]
    ELSE IF ~opens THEN [err |-> "VisaIOError", dev |-> <<>>]
    ELSE [err |-> "", dev |-> <<[id |-> id, live |-> TRUE, guarded |-> error_on_double_connect]>>]

\* _connect_device: [err, dev, imports, ran] (ran: the driver constructor was entered).
\* eodc is the error_on_double_connect keyword among extra_settings, None if absent.
ConnectDevice(conf, cch, id, driver, eodc, opens) ==
    LET use == IF driver = None THEN conf.devices[id] ELSE driver[1]
        res == ResolveDriver(conf, use)
        made == ConstructDevice(cch, id, IF eodc = None THEN TRUE ELSE eodc[1], opens)
    IN IF id \notin DOMAIN conf.devices
       THEN [err |-> "KeyError", dev |-> <<>>, imports |-> {}, ran |-> FALSE]
       ELSE IF res.err # ""
       THEN [err |-> res.err, dev |-> <<>>, imports |-> res.imports, ran |-> FALSE]
       ELSE [err |-> made.err, dev |-> made.dev, imports |-> res.imports, ran |-> TRUE]

\* mutant of GetDeviceOutcome: the cache is not consulted
GetDeviceAlwaysConnects(conf, cch, id, driver, eodc, opens) ==
    LET r == ConnectDevice(conf, [k \in {} |-> 0], id, driver, eodc, opens)
    IN [hit |-> FALSE, err |-> r.err, dev |-> r.dev, imports |-> r.imports, ran |-> r.ran,
        store |-> r.err = ""]
\* mutant of GetDeviceOutcome: the id is entered in the cache before connecting
GetDeviceStoresFirst(conf, cch, id, driver, eodc, opens) ==
    LET r == ConnectDevice(conf, cch, id, driver, eodc, opens)
    IN IF id \in DOMAIN cch
       THEN [hit |-> TRUE, err |-> "", dev |-> <<>>, imports |-> {}, ran |-> FALSE, store |-> FALSE]
       ELSE [hit |-> FALSE, err |-> r.err, dev |-> r.dev, imports |-> r.imports, ran |-> r.ran,
             store |-> TRUE]
\* get_device, lines 25-30: a hit returns the cached object; a miss connects and
\* stores the new object only when _connect_device returned
GetDeviceOutcome(conf, cch, id, driver, eodc, opens) ==
    LET r == ConnectDevice(conf, cch, id, driver, eodc, opens)
    IN IF id \in DOMAIN cch
       THEN [hit |-> TRUE, err |-> "", dev |-> <<>>, imports |-> {}, ran |-> FALSE, store |-> FALSE]
       ELSE [hit |-> FALSE, err |-> r.err, dev |-> r.dev, imports |-> r.imports, ran |-> r.ran,
             store |-> r.err = ""]

Bump(f, k) == [x \in DOMAIN f \cup {k} |-> IF x = k THEN (IF k \in DOMAIN f THEN f[k] + 1 ELSE 1)
                                           ELSE f[x]]
Put(f, k, v) == [x \in DOMAIN f \cup {k} |-> IF x = k THEN v ELSE f[x]]
Before == [cache |-> cache, devs |-> devs, imported |-> imported, ctorRuns |-> ctorRuns]

\* get_device(id, driver=driver, error_on_double_connect=eodc)
GetDevice(id, driver, eodc, opens) ==
    LET r == GetDeviceOutcome(hwconf, cache, id, driver, eodc, opens)
        new == Len(devs) + 1
        \* the entry stored: the new object, or nothing usable if none was built
        ret == IF r.hit THEN cache[id] ELSE IF r.dev # <<>> THEN new ELSE 0
    IN /\ calls > 0
       /\ calls' = calls - 1
       /\ devs' = devs \o r.dev
       /\ cache' = IF r.store THEN Put(cache, id, ret) ELSE cache
       /\ imported' = imported \cup r.imports
       /\ ctorRuns' = IF r.ran THEN Bump(ctorRuns, id) ELSE ctorRuns
       /\ optedOut' = (optedOut \/ (r.ran /\ eodc = Some(FALSE)))
       /\ returned' = IF r.err = ""
                      THEN Put(returned, id, (IF id \in DOMAIN returned THEN returned[id] ELSE {})
                                                \cup {ret})
                      ELSE returned
       /\ rlast' = [op |-> "get_device", err |-> r.err, id |-> id, driver |-> driver,
                    eodc |-> eodc, ret |-> IF r.err = "" THEN ret ELSE 0, pre |-> Before]
       /\ UNCHANGED <<hwconf, hierarchy, dataVars, visaVars>>

\* a driver class called directly: VisaDevice(id, address, error_on_double_connect=..)
DirectConstruct(id, error_on_double_connect, opens) ==
    LET r == ConstructDevice(cache, id, error_on_double_connect, opens)
    IN /\ calls > 0
       /\ calls' = calls - 1
       /\ devs' = devs \o r.dev
       /\ ctorRuns' = Bump(ctorRuns, id)
       /\ optedOut' = (optedOut \/ ~error_on_double_connect)
       /\ rlast' = [op |-> "construct", err |-> r.err, id |-> id, driver |-> None,
                    eodc |-> Some(error_on_double_connect),
                    ret |-> IF r.err = "" THEN Len(devs) + 1 ELSE 0, pre |-> Before]
       /\ UNCHANGED <<hwconf, cache, imported, returned, hierarchy, dataVars, visaVars>>

\* the driver strings a configuration or a caller may name
DriverStrings ==
    {DriverString(<<"Laser">>),                          \* registered in drivers.classes
     DriverString(<<"Bogus">>),                          \* no dot, not registered
     DriverString(<<"mydrivers", "FancyLaser">>),        \* class of an allow-listed module
     DriverString(<<"mydrivers", "lasers", "Tunable">>), \* class of a sub-module of it
     DriverString(<<"tekvisa", "TektronixScope">>),      \* a shipped driver
     DriverString(<<"os", "system">>)}                   \* importable, neither shipped nor meant as a driver
DriverArgs == {None, Some(DriverClass("VisaDevice")),
               Some(DriverString(<<"tekvisa", "TektronixScope">>))}

GetDeviceStep ==
    \E id \in DeviceIds, driver \in DriverArgs, eodc \in {None, Some(FALSE)}, opens \in BOOLEAN :
        GetDevice(id, driver, eodc, opens)
ConstructStep ==
    \E id \in DeviceIds, error_on_double_connect \in BOOLEAN, opens \in BOOLEAN :
        DirectConstruct(id, error_on_double_connect, opens)

\* a loaded configuration: scope1 is configured with any driver string, esa may
\* be configured; drivers.modules allow-lists mydrivers or nothing
InitConfig ==
    /\ \E d \in DriverStrings, withEsa \in BOOLEAN, mods \in {{}, {<<"mydrivers">>}} :
           hwconf = [devices |-> [id \in (IF withEsa THEN {"scope1", "esa"} ELSE {"scope1"}) |->
                                     IF id = "scope1" THEN d
                                     ELSE DriverString(<<"keysightvisa", "KeysightESA">>)],
                     modules |-> mods,
                     classes |-> {"Laser"}]
    /\ cache = <<>>
    /\ devs = <<>>
    /\ imported = {}
    /\ ctorRuns = <<>>
    /\ optedOut = FALSE
    /\ returned = <<>>
    /\ calls = MaxCalls
    /\ hierarchy = <<>>
    /\ rlast = NoOp

NoData == InitData([new |-> 0, iloc |-> 0, stack |-> 0, save |-> 0, load |-> 0])

\* devices are obtained through get_device only
InitGetDevice == InitConfig /\ NoData
NextGetDevice == GetDeviceStep
SpecGetDevice == InitGetDevice /\ [][NextGetDevice]_vars

\* devices are obtained through get_device and by calling driver classes directly
InitRegistry == InitConfig /\ NoData
NextRegistry == GetDeviceStep \/ ConstructStep
SpecRegistry == InitRegistry /\ [][NextRegistry]_vars

(***************************************************************************)
(* Properties of the registry.                                             *)
(***************************************************************************)
GetDeviceCalled == rlast.op = "get_device"
CacheHit == GetDeviceCalled /\ rlast.id \in DOMAIN rlast.pre.cache
DevicesOf(id) == {d \in DOMAIN devs : devs[d].id = id /\ devs[d].live}
\* a hit returns the cached object and constructs, imports and stores nothing
HitConstructsNothing ==
    CacheHit =>
        /\ rlast.err = ""
        /\ rlast.ret = rlast.pre.cache[rlast.id]
        /\ devs = rlast.pre.devs
        /\ ctorRuns = rlast.pre.ctorRuns
        /\ imported = rlast.pre.imported
        /\ cache = rlast.pre.cache
SameObjectReturned == \A id \in DOMAIN returned : Cardinality(returned[id]) <= 1

\* C7 (as claimed): every get_device call for an id returns the same object, the
\* driver constructor has run at most once for the id, and a call for a cached
\* id constructs nothing.
C7_ConstructorRunsOnce ==
    /\ SameObjectReturned
    /\ \A id \in DOMAIN ctorRuns : ctorRuns[id] <= 1
    /\ HitConstructsNothing
\* C7 (amended): every get_device call for an id returns the same object, at most
\* one constructor run for the id has completed (so at most one transport is
\* open for it), and a call for a cached id constructs nothing, whatever driver
\* or settings it passes.
C7_ConstructorCompletesOnce ==
    /\ SameObjectReturned
    /\ \A id \in DeviceIds : Cardinality(DevicesOf(id)) <= 1
    /\ \A id \in DOMAIN cache : DevicesOf(id) = {cache[id]}
    /\ HitConstructsNothing
\* C7 witness: after a failed and a successful construction for the id, a call
\* naming another driver and error_on_double_connect=False got the cached object.
C7_Witness ==
    /\ CacheHit
    /\ rlast.driver # None
    /\ rlast.eodc = Some(FALSE)
    /\ rlast.ret = cache[rlast.id]
    /\ ctorRuns[rlast.id] = 2

\* C8 (as claimed): unless some constructor call passed
\* error_on_double_connect=False, no id has two live Devices.
C8_OneLiveDevicePerId ==
    ~optedOut => \A id \in DeviceIds : Cardinality(DevicesOf(id)) <= 1

\* the driver reference the call resolves: the argument, or else the configured one
DriverUsed == IF rlast.driver # None THEN rlast.driver[1] ELSE hwconf.devices[rlast.id]
AllowListed(module) == \E m \in hwconf.modules : IsPrefix(m, module)
\* C9 (as claimed): get_device with a dotted driver path whose module is not
\* allow-listed fails with UntrustedDriverError, imports nothing and constructs
\* and caches no Device.
C9_UntrustedDriverRejected ==
    (/\ GetDeviceCalled /\ ~CacheHit
     /\ rlast.id \in DOMAIN hwconf.devices
     /\ ~DriverUsed.cls
     /\ Len(DriverUsed.path) >= 2
     /\ ~AllowListed(SubSeq(DriverUsed.path, 1, Len(DriverUsed.path) - 1)))
    => /\ rlast.err = "UntrustedDriverError"
       /\ imported = rlast.pre.imported
       /\ devs = rlast.pre.devs
       /\ cache = rlast.pre.cache

\* C10: get_device for an unconfigured id fails with the unknown-device error
\* (the KeyError of the configuration lookup) and leaves the cache as it was;
\* whenever get_device fails the cache is unchanged and has no entry for the id,
\* so the next call for the id connects again.
C10_FailureLeavesCacheAlone ==
    GetDeviceCalled =>
        /\ (rlast.id \notin DOMAIN hwconf.devices /\ ~CacheHit) =>
               (rlast.err = "KeyError" /\ cache = rlast.pre.cache)
        /\ rlast.err # "" => (cache = rlast.pre.cache /\ rlast.id \notin DOMAIN cache)
        /\ \A id \in DOMAIN cache : cache[id] \in DOMAIN devs /\ devs[cache[id]].id = id
\* C10 witness: scope1 failed to connect, connected on the next call, and then
\* a call for the unconfigured esa failed and left scope1 alone in the cache.
C10_Witness ==
    /\ GetDeviceCalled
    /\ rlast.err = "KeyError"
    /\ rlast.id = "esa"
    /\ DOMAIN cache = {"scope1"}
    /\ ctorRuns["scope1"] = 2
    /\ Len(devs) = 1

(***************************************************************************)
(* The VISA binding layer (hw/visadevice.py): values and conversions.      *)
(* A Python value is [t, n, form, ws].  Numbers are counted in eighths, so *)
(* that the halves the model writes stay exact when divided by 2.0 or 4.0  *)
(* (as they do in binary floating point): a float, int or bool has n = 8   *)
(* times its value.  A str is a text of the wire: form "int" is the        *)
(* decimal text of the integer n/8 ("5"), form "dec" the text of the float *)
(* n/8 ("2.5", "5.0"), any other form is that word itself ("SA", "True");  *)
(* ws tells whether white space surrounds it.                              *)
(***************************************************************************)
PyFloat(n) == [t |-> "float", n |-> n, form |-> "", ws |-> FALSE]
PyInt(k) == [t |-> "int", n |-> 8 * k, form |-> "", ws |-> FALSE]
PyBool(b) == [t |-> "bool", n |-> IF b THEN 8 ELSE 0, form |-> "", ws |-> FALSE]
Text(form, n, ws) == [t |-> "str", n |-> n, form |-> form, ws |-> ws]
Word(w) == Text(w, 0, FALSE)
NoValue == [t |-> "none", n |-> 0, form |-> "", ws |-> FALSE]

\* the outcome of evaluating an expression: the error raised, or the value
Ok(v) == [err |-> "", v |-> v]
Raise(e) == [err |-> e, v |-> NoValue]

Abs(n) == IF n < 0 THEN -n ELSE n
\* int(x) rounds a float toward zero
Trunc(n) == IF n < 0 THEN -((Abs(n) \div 8) * 8) ELSE (n \div 8) * 8

\* response.strip()
Strip(x) == [x EXCEPT !.ws = FALSE]
\* float(x)
ToFloat(x) ==
    IF x.t \in {"float", "int", "bool"} THEN Ok(PyFloat(x.n))
    ELSE IF x.t = "str" /\ x.form \in {"int", "dec"} THEN Ok(PyFloat(x.n))
    ELSE Raise("ValueError")
\* int(x): a text must be the text of an integer
ToInt(x) ==
    IF x.t \in {"float", "int", "bool"} THEN Ok([PyInt(0) EXCEPT !.n = Trunc(x.n)])
    ELSE IF x.t = "str" /\ x.form = "int" THEN Ok([PyInt(0) EXCEPT !.n = x.n])
    ELSE Raise("ValueError")
\* str(x), which is also how an f-string renders x
ToStr(x) ==
    CASE x.t = "float" -> Text("dec", x.n, FALSE)
      [] x.t = "int" -> Text("int", x.n, FALSE)
      [] x.t = "bool" -> Word(IF x.n # 0 THEN "True" ELSE "False")
      [] x.t = "none" -> Word("None")
      [] x.t = "enum" -> Word(x.form)      \* SettingEnum.__str__ returns the member's value
      [] OTHER -> x
\* device.intbool_conv: bool(int(s))
intbool_conv(x) ==
    LET i == ToInt(x) IN IF i.err # "" THEN i ELSE Ok(PyBool(i.v.n # 0))

\* InstrumentModes(x): the member whose value is the text x
ToEnum(x) ==
    IF x.t = "enum" THEN Ok(x)
    ELSE IF x.t = "str" /\ ~x.ws /\ x.form \in {"SA", "BASIC"}
    THEN Ok([t |-> "enum", n |-> 0, form |-> x.form, ws |-> FALSE])
    ELSE Raise("ValueError")

\* calling the converter named conv
Convert(conv, x) ==
    CASE conv = "float" -> ToFloat(x)
      [] conv = "InstrumentModes" -> ToEnum(x)
      [] conv = "int" -> ToInt(x)
      [] conv = "intbool_conv" -> intbool_conv(x)
      [] OTHER -> Ok(ToStr(x))

\* val * value_multiplier, for a float multiplier
Times(x, m) ==
    IF x.t \in {"float", "int", "bool"} THEN Ok(PyFloat((x.n * m.n) \div 8))
    ELSE Raise("TypeError")
\* val / value_multiplier
Over(x, m) ==
    IF x.t \in {"float", "int", "bool"} THEN Ok(PyFloat((x.n * 8) \div m.n))
    ELSE Raise("TypeError")
\* round(val, 0): to the nearest whole number, a tie to the even one; an int stays an int
RoundHalfEven(n) ==
    LET q == n \div 8
        r == n % 8
    IN IF r < 4 THEN 8 * q
       ELSE IF r > 4 THEN 8 * (q + 1)
       ELSE IF q % 2 = 0 THEN 8 * q ELSE 8 * (q + 1)
PyRound(x, digits) ==
    IF x.t = "float" THEN Ok(PyFloat(RoundHalfEven(x.n)))
    ELSE IF x.t \in {"int", "bool"} THEN Ok([PyInt(0) EXCEPT !.n = x.n])
    ELSE Raise("TypeError")

\* the options of one command: a dict whose absent keys are None here
NoOptions == [value_multiplier |-> None, round_on_read_digits |-> None,
              round_on_write_digits |-> None, disable_write |-> None]
\* lines 254-260
visa_read_value_transform(val, o) ==
    LET a == IF o.value_multiplier # None THEN Times(val, o.value_multiplier[1]) ELSE Ok(val)
    IN IF a.err # "" THEN a
       ELSE IF o.round_on_read_digits # None THEN PyRound(a.v, o.round_on_read_digits[1]) ELSE a
\* lines 263-269
visa_write_value_transform(val, o) ==
    LET a == IF o.value_multiplier # None THEN Over(val, o.value_multiplier[1]) ELSE Ok(val)
    IN IF a.err # "" THEN a
       ELSE IF o.round_on_write_digits # None THEN PyRound(a.v, o.round_on_write_digits[1]) ELSE a

(***************************************************************************)
(* Command templates and the messages handed to the transport.             *)
(* A template is a sequence of parts [k, s, v]: literal text (k = "lit"),  *)
(* a placeholder {s} (k = "ph") or, once formatted, the value v that       *)
(* replaced the placeholder s (k = "val").  A message is the command, what *)
(* delimits it from its value ("?" for a read) and the rendered value.     *)
(***************************************************************************)
Lit(str) == [k |-> "lit", s |-> str, v |-> NoValue]
Ph(name) == [k |-> "ph", s |-> name, v |-> NoValue]
Placeholders(tpl) == {tpl[i].s : i \in {j \in DOMAIN tpl : tpl[j].k = "ph"}}
\* visa_cmd.format(**params): KeyError when a placeholder has no parameter
Format(tpl, params) ==
    IF Placeholders(tpl) \subseteq DOMAIN params
    THEN [err |-> "",
          cmd |-> [i \in DOMAIN tpl |->
                      IF tpl[i].k = "ph" THEN [k |-> "val", s |-> tpl[i].s, v |-> params[tpl[i].s]]
                      ELSE tpl[i]]]
    ELSE [err |-> "KeyError", cmd |-> <<>>]
Message(cmd, delim, value) == [cmd |-> cmd, delim |-> delim, value |-> value]
\* {**a, **b}, and a.update(b): the keys of b win
Merge(a, b) == [k \in DOMAIN a \cup DOMAIN b |-> IF k \in DOMAIN b THEN b[k] ELSE a[k]]
NoParams == [k \in {} |-> NoValue]
Params(channel) == [k \in {"channel"} |-> PyInt(channel)]

\* visa_property: the converters it settles on, lines 111-121
Converters(dtype, read_conv, write_conv, rw_conv) ==
    LET r1 == IF rw_conv # None THEN rw_conv[1] ELSE read_conv
        w1 == IF rw_conv # None THEN rw_conv[1] ELSE write_conv
    IN IF dtype = None THEN [read |-> r1, write |-> w1]
       ELSE IF dtype[1] = "bool" THEN [read |-> "intbool_conv", write |-> "int"]   \* DTYPE_CONVERTERS
       ELSE IF dtype[1] = "InstrumentModes" THEN [read |-> dtype[1], write |-> "str"]
       ELSE [read |-> dtype[1], write |-> dtype[1]]

\* visa_property(visa_cmd, dtype, read_only, rw_conv=..., access_guard=..., read_on_write=...)
visa_property(visa_cmd, dtype, read_only, rw_conv, guarded, read_on_write) ==
    [kind |-> "property", visa_cmd |-> visa_cmd, read_only |-> read_only,
     conv |-> Converters(dtype, "str", "str", rw_conv),
     access_guard |-> guarded, read_on_write |-> read_on_write,
     read_suffix |-> "?", set_cmd_delimiter |-> " ", kwarg_defaults |-> NoParams]
\* visa_command(visa_cmd, kwarg_defaults=...) and visa_query(visa_cmd, kwarg_defaults=...)
visa_command(visa_cmd, kwarg_defaults) ==
    [kind |-> "command", visa_cmd |-> visa_cmd, read_only |-> FALSE,
     conv |-> [read |-> "str", write |-> "str"],
     access_guard |-> FALSE, read_on_write |-> FALSE,
     read_suffix |-> "", set_cmd_delimiter |-> "", kwarg_defaults |-> kwarg_defaults]
visa_query(visa_cmd, kwarg_defaults) ==
    [visa_command(visa_cmd, kwarg_defaults) EXCEPT !.kind = "query"]

\* the bindings of the driver class of the model: the kinds of declaration the
\* shipped drivers make
Bindings ==
    [freq |-> visa_property(<<Lit("sens:freq")>>, Some("float"), FALSE, None, FALSE, FALSE),
     \* a second property with the same command
     freq_alias |-> visa_property(<<Lit("sens:freq")>>, Some("float"), FALSE, None, FALSE, FALSE),
     points |-> visa_property(<<Lit("swe:poin")>>, Some("int"), FALSE, None, FALSE, FALSE),
     enabled |-> visa_property(<<Lit("outp")>>, Some("bool"), FALSE, None, FALSE, TRUE),
     \* instrument_mode, which the access guard reads (keysightvisa.py 172)
     instrument_mode |-> visa_property(<<Lit("inst:sel")>>, Some("InstrumentModes"), FALSE, None, FALSE, FALSE),
     \* SA_visa_property: guarded by require_sa_mode
     span |-> visa_property(<<Lit("sens:span")>>, Some("float"), FALSE, None, TRUE, FALSE),
     power |-> visa_property(<<Lit("power")>>, Some("float"), TRUE, None, TRUE, FALSE),
     \* a channel property (tekvisa.py 178)
     scale |-> visa_property(<<Lit("ch"), Ph("channel"), Lit(":scale")>>, None, FALSE, Some("float"), FALSE, FALSE),
     save |-> visa_command(<<Lit("save ch"), Ph("channel")>>, Params(1)),
     mean |-> visa_query(<<Lit("meas"), Ph("channel"), Lit(":mean?")>>, NoParams)]
BindingNames == DOMAIN Bindings
Properties == {b \in BindingNames : Bindings[b].kind = "property"}
Actions == BindingNames \ Properties

(***************************************************************************)
(* A VisaDevice object and its accessors.  self is the record of the       *)
(* instance attributes: instr ("unset" before open_resource has returned,  *)
(* "open", "deleted" after del self.instr), closes (how often instr.close  *)
(* ran), debug_on (_debug_on: "unset" until the caller assigns it),        *)
(* command_options (binding -> index into the heap of option dicts) and    *)
(* query_params (None when the instance has no such attribute).            *)
(* An accessor yields [err, ret, events]; events are the calls it made, in *)
(* order: the guard ("guard") and what reached the transport ("write",     *)
(* "query"), each with the binding whose accessor made the call.           *)
(***************************************************************************)
NoMessage == Message(<<>>, "", NoValue)
Event(e, by, msg) == [e |-> e, by |-> by, msg |-> msg]
Outcome(err, ret, events) == [err |-> err, ret |-> ret, events |-> events]

\* debug_wrapper_method, lines 272-283: self._debug_on is read, then
\* self.instr.<func> is looked up and called
Transport(self, func, by, msg) ==
    IF self.debug_on = "unset" THEN Outcome("AttributeError", NoValue, <<>>)
    ELSE IF self.instr # "open" THEN Outcome("AttributeError", NoValue, <<>>)
    ELSE Outcome("", NoValue, <<Event(func, by, msg)>>)

\* one call after another: the first error ends the accessor, the events add up
Then(first, second) ==
    IF first.err # "" THEN first
    ELSE Outcome(second.err, second.ret, first.events \o second.events)
\* the command of the instance: lines 131-134 and 155-157
FormatCommand(self, name) ==
    IF self.query_params # None THEN Format(Bindings[name].visa_cmd, self.query_params[1])
    ELSE [err |-> "", cmd |-> Bindings[name].visa_cmd]
HasOptions(self, name) == name \in DOMAIN self.command_options
OptionsOf(self, heap, name) == heap[self.command_options[name]]

\* lines 137-142: the response converted, then transformed by the command options
ReadValue(self, heap, name, response) ==
    LET c == Convert(Bindings[name].conv.read, Strip(response))
    IN IF c.err # "" \/ ~HasOptions(self, name) THEN c
       ELSE visa_read_value_transform(c.v, OptionsOf(self, heap, name))
\* line 136: the query, answered by reply
QueryFor(self, name, cmd, reply) ==
    LET t == Transport(self, "query", name, Message(cmd, Bindings[name].read_suffix, NoValue))
    IN IF t.err = "" /\ reply.err # "" THEN Outcome(reply.err, NoValue, t.events) ELSE t
\* visa_getter after its guard, lines 131-144
GetterBody(self, heap, name, reply) ==
    LET f == FormatCommand(self, name)
        v == ReadValue(self, heap, name, reply.v)
    IN IF f.err # "" THEN Outcome(f.err, NoValue, <<>>)
       ELSE Then(QueryFor(self, name, f.cmd, reply), Outcome(v.err, v.v, <<>>))

\* KeysightESA.require_sa_mode (keysightvisa.py 161-164): reads instrument_mode
require_sa_mode(self, heap, mode_reply) ==
    LET m == GetterBody(self, heap, "instrument_mode", mode_reply)
    IN Then(Outcome("", NoValue, <<Event("guard", "", NoMessage)>>),
            IF m.err = "" /\ m.ret.form # "SA" THEN Outcome("RuntimeError", NoValue, m.events)
            ELSE Outcome(m.err, NoValue, m.events))
\* lines 128-129 and 152-153: if access_guard is not None: access_guard(self)
GuardOf(self, heap, name, mode_reply) ==
    IF Bindings[name].access_guard THEN require_sa_mode(self, heap, mode_reply)
    ELSE Outcome("", NoValue, <<>>)

\* mutant of visa_getter: the guard is called after the property's own query
GetterGuardsLast(self, heap, name, reply, mode_reply) ==
    Then(GetterBody(self, heap, name, reply),
         [GuardOf(self, heap, name, mode_reply) EXCEPT !.ret = GetterBody(self, heap, name, reply).ret])
\* visa_getter, lines 127-144
visa_getter(self, heap, name, reply, mode_reply) ==
    Then(GuardOf(self, heap, name, mode_reply), GetterBody(self, heap, name, reply))

\* lines 159-166: the value to send: refused when writing is disabled, else
\* transformed by the command options, then converted
WriteValue(self, heap, name, value) ==
    LET opt == OptionsOf(self, heap, name)
        x == IF HasOptions(self, name) THEN visa_write_value_transform(value, opt) ELSE Ok(value)
    IN IF HasOptions(self, name) /\ opt.disable_write # None /\ opt.disable_write[1]
       THEN Raise("ValueError")
       ELSE IF x.err # "" THEN x
       ELSE Convert(Bindings[name].conv.write, x.v)
\* mutant of SendFor: the command is always written, read_on_write is ignored
SendWritesOnly(self, name, cmd, text, reply) ==
    Transport(self, "write", name, Message(cmd, Bindings[name].set_cmd_delimiter, text))
\* lines 169-175: the command is written, or queried when read_on_write
SendFor(self, name, cmd, text, reply) ==
    LET t == Transport(self, IF Bindings[name].read_on_write THEN "query" ELSE "write", name,
                       Message(cmd, Bindings[name].set_cmd_delimiter, text))
    IN IF t.err = "" /\ Bindings[name].read_on_write /\ reply.err # ""
       THEN Outcome(reply.err, NoValue, t.events)
       ELSE t
\* visa_setter after its guard, lines 155-175
SetterBody(self, heap, name, value, reply) ==
    LET f == FormatCommand(self, name)
        w == WriteValue(self, heap, name, value)
    IN IF f.err # "" THEN Outcome(f.err, NoValue, <<>>)
       ELSE IF w.err # "" THEN Outcome(w.err, NoValue, <<>>)
       ELSE SendFor(self, name, f.cmd, ToStr(w.v), reply)
\* visa_setter, lines 151-175
visa_setter(self, heap, name, value, reply, mode_reply) ==
    Then(GuardOf(self, heap, name, mode_reply), SetterBody(self, heap, name, value, reply))
\* mutant of PropertySet: a read_only property has a setter like any other
PropertySetAlways(self, heap, name, value, reply, mode_reply) ==
    visa_setter(self, heap, name, value, reply, mode_reply)
\* self.<name> = value: a read_only property has no setter (lines 150, 176-179),
\* and the property object itself refuses the assignment
PropertySet(self, heap, name, value, reply, mode_reply) ==
    IF Bindings[name].read_only THEN Outcome("AttributeError", NoValue, <<>>)
    ELSE visa_setter(self, heap, name, value, reply, mode_reply)

\* lines 202-208 and 233-239: the keywords the template is formatted with
KeywordsUsed(self, name, kw) ==
    Merge(Bindings[name].kwarg_defaults,
          IF self.query_params # None THEN Merge(kw, self.query_params[1]) ELSE kw)
\* lines 219-224 and 246-249: the command is written, or queried; a query
\* returns the reply as it came
ExecuteFor(self, name, cmd, reply) ==
    LET func == IF Bindings[name].kind = "query" \/ Bindings[name].read_on_write
                THEN "query" ELSE "write"
        t == Transport(self, func, name, Message(cmd, "", NoValue))
    IN IF t.err # "" \/ func = "write" THEN t
       ELSE Outcome(reply.err, reply.v, t.events)
\* visa_executer of visa_command (lines 193-224, without a completion wait) and
\* of visa_query (lines 232-249)
visa_executer(self, name, kw, reply) ==
    LET f == Format(Bindings[name].visa_cmd, KeywordsUsed(self, name, kw))
    IN IF f.err # "" THEN Outcome("ValueError", NoValue, <<>>)
       ELSE ExecuteFor(self, name, f.cmd, reply)

\* VisaDevice.__init__, lines 287-297: the new instance.  command_options is
\* None or the caller's mapping binding -> option dict; each option dict is
\* stored as it is, not copied.  A subclass constructor may set query_params.
VisaInit(opens, command_options, query_params) ==
    IF ~opens
    THEN [built |-> FALSE, instr |-> "unset", closes |-> 0, debug_on |-> "unset",
          command_options |-> [k \in {} |-> 0], query_params |-> None]
    ELSE [built |-> TRUE, instr |-> "open", closes |-> 0, debug_on |-> "unset",
          command_options |-> IF command_options = None THEN [k \in {} |-> 0]
                              ELSE command_options[1],
          query_params |-> query_params]

\* VisaDevice.__del__, lines 299-302: [err, self]
Teardown(self) ==
    IF self.instr # "open" THEN [err |-> "AttributeError", self |-> self]
    ELSE [err |-> "", self |-> [self EXCEPT !.closes = @ + 1, !.instr = "deleted"]]

\* mutant of set_command_option: the record is replaced by the options given, not merged
SetOptionReplacesRecord(self, heap, name, value_multiplier, kw) ==
    LET fresh == name \notin DOMAIN self.command_options
        heap1 == IF fresh THEN Append(heap, NoOptions) ELSE heap
        idx == IF fresh THEN Len(heap) + 1 ELSE self.command_options[name]
    IN [self |-> [self EXCEPT !.command_options = Put(@, name, idx)],
        heap |-> [heap1 EXCEPT ![idx] = IF value_multiplier # None
                                        THEN [kw EXCEPT !.value_multiplier = value_multiplier]
                                        ELSE kw]]
\* set_command_option, lines 347-356: [self, heap].  kw holds the keyword
\* options, None for a keyword that was not passed.
set_command_option(self, heap, name, value_multiplier, kw) ==
    LET fresh == name \notin DOMAIN self.command_options
        heap1 == IF fresh THEN Append(heap, NoOptions) ELSE heap
        idx == IF fresh THEN Len(heap) + 1 ELSE self.command_options[name]
        kw1 == IF value_multiplier # None THEN [kw EXCEPT !.value_multiplier = value_multiplier]
               ELSE kw
    IN [self |-> [self EXCEPT !.command_options = Put(@, name, idx)],
        heap |-> [heap1 EXCEPT ![idx] = [k \in DOMAIN NoOptions |->
                                            IF kw1[k] # None THEN kw1[k] ELSE heap1[idx][k]]]]
\* remove_command_option, lines 358-368: [self, heap].  flags are the keys
\* passed with a true value.
remove_command_option(self, heap, name, flags) ==
    IF name \notin DOMAIN self.command_options THEN [self |-> self, heap |-> heap]
    ELSE LET idx == self.command_options[name]
         IN [self |-> self,
             heap |-> [heap EXCEPT ![idx] = [k \in DOMAIN NoOptions |->
                                                IF k \in flags THEN None ELSE heap[idx][k]]]]

(***************************************************************************)
(* The VISA operations.                                                    *)
(***************************************************************************)
VisaBefore == [inst |-> inst, odicts |-> odicts]
VisaCall(op, d, name, args, out) ==
    [op |-> op, d |-> d, name |-> name, args |-> args,
     err |-> out.err, ret |-> out.ret, events |-> out.events, pre |-> VisaBefore]
Spend(what) == /\ vq[what] > 0
               /\ vq' = [vq EXCEPT ![what] = @ - 1]

\* a driver class is called: D = Driver(id, address, command_options=..)
VisaNew(opens, command_options, query_params) ==
    /\ Spend("new")
    /\ inst' = Append(inst, VisaInit(opens, command_options, query_params))
    /\ vlast' = VisaCall("new", Len(inst) + 1, "", [command_options |-> command_options],
                         Outcome(IF opens THEN "" ELSE "VisaIOError", NoValue, <<>>))
    /\ UNCHANGED <<odicts, wait, dataVars, regVars>>

\* the caller assigns D._debug_on = False, which no code of the package does
SetDebug(d) ==
    /\ Spend("debug")
    /\ inst[d].built /\ inst[d].debug_on = "unset"
    /\ inst' = [inst EXCEPT ![d].debug_on = "off"]
    /\ vlast' = VisaCall("set_debug", d, "", <<>>, Outcome("", NoValue, <<>>))
    /\ UNCHANGED <<odicts, wait, dataVars, regVars>>

\* D.__del__(), called by the caller or by the interpreter when D is collected
Del(d) ==
    LET r == Teardown(inst[d])
    IN /\ Spend("del")
       /\ inst' = [inst EXCEPT ![d] = r.self]
       /\ vlast' = VisaCall("del", d, "", <<>>, Outcome(r.err, NoValue, <<>>))
       /\ UNCHANGED <<odicts, wait, dataVars, regVars>>

\* x = D.<name>
PropRead(d, name, reply, mode_reply) ==
    /\ Spend("access")
    /\ inst[d].built
    /\ vlast' = VisaCall("read", d, name, [reply |-> reply, mode_reply |-> mode_reply],
                         visa_getter(inst[d], odicts, name, reply, mode_reply))
    /\ UNCHANGED <<inst, odicts, wait, dataVars, regVars>>

\* D.<name> = value
PropWrite(d, name, value, reply, mode_reply) ==
    /\ Spend("access")
    /\ inst[d].built
    /\ vlast' = VisaCall("write", d, name,
                         [value |-> value, reply |-> reply, mode_reply |-> mode_reply],
                         PropertySet(inst[d], odicts, name, value, reply, mode_reply))
    /\ UNCHANGED <<inst, odicts, wait, dataVars, regVars>>

\* D.<name>(**kw)
Invoke(d, name, kw, reply) ==
    /\ Spend("access")
    /\ inst[d].built
    /\ vlast' = VisaCall("invoke", d, name, [kw |-> kw, reply |-> reply],
                         visa_executer(inst[d], name, kw, reply))
    /\ UNCHANGED <<inst, odicts, wait, dataVars, regVars>>

\* D.set_command_option(name, value_multiplier=.., **kw)
SetCommandOption(d, name, value_multiplier, kw) ==
    LET r == set_command_option(inst[d], odicts, name, value_multiplier, kw)
    IN /\ Spend("option")
       /\ inst[d].built
       /\ inst' = [inst EXCEPT ![d] = r.self]
       /\ odicts' = r.heap
       /\ vlast' = VisaCall("set_command_option", d, name,
                            [value_multiplier |-> value_multiplier, kw |-> kw],
                            Outcome("", NoValue, <<>>))
       /\ UNCHANGED <<wait, dataVars, regVars>>

\* D.remove_command_option(name, <key>=True, ..)
RemoveCommandOption(d, name, flags) ==
    LET r == remove_command_option(inst[d], odicts, name, flags)
    IN /\ Spend("option")
       /\ inst[d].built
       /\ inst' = [inst EXCEPT ![d] = r.self]
       /\ odicts' = r.heap
       /\ vlast' = VisaCall("remove_command_option", d, name, [flags |-> flags],
                            Outcome("", NoValue, <<>>))
       /\ UNCHANGED <<wait, dataVars, regVars>>

(***************************************************************************)
(* Inputs of the VISA operations, and the specifications.                  *)
(***************************************************************************)
\* what the instrument may answer: "5.0\n", "1.25", "1", "0\n", "SA", or a failed read
Replies == {Ok(Text("dec", 40, TRUE)), Ok(Text("dec", 10, FALSE)), Ok(Text("int", 8, FALSE)),
            Ok(Text("int", 0, TRUE)), Ok(Word("SA")), Raise("VisaIOError")}
\* what it may answer to the guard's inst:sel?
ModeReplies(name) ==
    IF Bindings[name].access_guard THEN {Ok(Word("SA")), Ok(Word("BASIC")), Raise("VisaIOError")}
    ELSE {Ok(Word("SA"))}
\* what it answers to a write that is sent as a query (read_on_write)
WriteReplies(name) ==
    IF Bindings[name].read_on_write THEN {Ok(Word("SA")), Raise("VisaIOError")}
    ELSE {Ok(Word("SA"))}
\* the values a caller writes: 10.0, 2.5, 5, True, False
WriteValues == {PyFloat(80), PyFloat(20), PyInt(5), PyBool(TRUE), PyBool(FALSE)}
\* the query_params an instance may carry: none, {"channel": 2}, {}
QueryParams == {None, Some(Params(2)), Some(NoParams)}
\* the keywords a caller passes to an action: none, channel=3
Keywords == {NoParams, Params(3)}

SetDebugStep == \E d \in DOMAIN inst : SetDebug(d)
DelStep == \E d \in DOMAIN inst : Del(d)
ReadStep ==
    \E d \in DOMAIN inst, name \in Properties :
        \E reply \in Replies, mode_reply \in ModeReplies(name) : PropRead(d, name, reply, mode_reply)
WriteStep ==
    \E d \in DOMAIN inst, name \in Properties, value \in WriteValues :
        \E reply \in WriteReplies(name), mode_reply \in ModeReplies(name) :
            PropWrite(d, name, value, reply, mode_reply)
InvokeStep ==
    \E d \in DOMAIN inst, name \in Actions, kw \in Keywords, reply \in {Ok(Word("SA")), Raise("VisaIOError")} :
        Invoke(d, name, kw, reply)

\* no container is involved
NoContainers ==
    /\ quota = [new |-> 0, iloc |-> 0, stack |-> 0, save |-> 0, load |-> 0]
    /\ objs = <<>>
    /\ archive = None
    /\ lists = <<>>
    /\ dicts = <<>>
    /\ last = NoOp

\* bindings: one device is constructed without command options, the caller may
\* switch the debug flag off, reads, writes and actions are called, the device is torn down
BindingNewStep == \E opens \in BOOLEAN, qp \in QueryParams : VisaNew(opens, None, qp)
InitBinding ==
    /\ NoContainers /\ InitReg
    /\ inst = <<>>
    /\ odicts = <<>>
    /\ vlast = NoOp
    /\ vq = [new |-> 1, debug |-> 1, del |-> MaxDel, access |-> MaxAccess, option |-> 0]
    /\ wait = [pc |-> "idle"]
NextBinding == BindingNewStep \/ SetDebugStep \/ DelStep \/ ReadStep \/ WriteStep \/ InvokeStep
SpecBinding == InitBinding /\ [][NextBinding]_vars

(***************************************************************************)
(* Properties of teardown, of the accessors and of the actions.            *)
(***************************************************************************)
Accessed == vlast.op \in {"read", "write", "invoke"}
Self == vlast.pre.inst[vlast.d]
\* the device was constructed and has not been torn down
Usable == Self.built /\ Self.instr = "open"
\* the events of the last operation that put the command of binding name on the transport
SentBy(name) == {i \in DOMAIN vlast.events :
                    vlast.events[i].e \in {"write", "query"} /\ vlast.events[i].by = name}
GuardCalls == {i \in DOMAIN vlast.events : vlast.events[i].e = "guard"}

\* C11: teardown closes the transport exactly once: a second __del__ on a device
\* already torn down neither closes again nor raises, and changes nothing.
C11_TeardownClosesOnce ==
    /\ \A d \in DOMAIN inst : inst[d].closes <= 1
    /\ (vlast.op = "del" /\ Self.closes = 1) => (vlast.err = "" /\ inst = vlast.pre.inst)

\* C13: a write to a read_only property fails, before the guard is called and
\* before anything reaches the transport.
C13_ReadOnlyWriteFails ==
    (vlast.op = "write" /\ Bindings[vlast.name].read_only) =>
        /\ vlast.err # ""
        /\ vlast.events = <<>>
\* C13 witness: a write to the guarded, read_only power on a working device in
\* SA mode has failed.
C13_Witness ==
    /\ vlast.op = "write" /\ vlast.name = "power"
    /\ Bindings["power"].access_guard
    /\ Usable /\ Self.debug_on = "off"
    /\ vlast.args.mode_reply = Ok(Word("SA"))
    /\ vlast.err = "AttributeError"

\* what the guard does when called on the device as it was
GuardOutcome == GuardOf(Self, vlast.pre.odicts, vlast.name, vlast.args.mode_reply)
GuardedAccess == vlast.op \in {"read", "write"} /\ Bindings[vlast.name].access_guard
\* the guard is the first call made, and the property's command comes after every guard call
GuardComesFirst ==
    /\ GuardCalls # {}
    /\ vlast.events[1].e = "guard"
    /\ \A i \in SentBy(vlast.name), g \in GuardCalls : g < i
\* a guard that raises keeps the command off the transport, and its error is the outcome
GuardErrorStops ==
    GuardOutcome.err # "" => (SentBy(vlast.name) = {} /\ vlast.err = GuardOutcome.err)
\* C14 (as claimed): the guard of a guarded property is called before every read
\* and every write, and before the property's command is sent; when the guard
\* raises, the command is never sent and the caller gets the guard's error.
C14_GuardBeforeEveryAccess ==
    GuardedAccess => (GuardComesFirst /\ GuardErrorStops)
\* C14 (amended): the same for every read, and for every write of a property
\* that is not read_only; a write to a read_only property is refused before the
\* guard is called.
C14_GuardBeforeAcceptedAccess ==
    /\ (GuardedAccess /\ ~(vlast.op = "write" /\ Bindings[vlast.name].read_only)) =>
           (GuardComesFirst /\ GuardErrorStops)
    /\ (GuardedAccess /\ vlast.op = "write" /\ Bindings[vlast.name].read_only) =>
           (GuardCalls = {} /\ vlast.err # "")
\* C14 witness: on a working device in IQ mode, the read of a property guarded
\* by require_sa_mode got the guard's RuntimeError, and only the guard's own
\* query reached the transport.
C14_Witness ==
    /\ vlast.op = "read" /\ GuardedAccess
    /\ Usable /\ Self.debug_on = "off"
    /\ vlast.err = "RuntimeError"
    /\ Len(vlast.events) = 2
    /\ vlast.events[2].by = "instrument_mode"

\* dtype=bool: the property whose converters are those of DTYPE_CONVERTERS[bool]
BoolProperty(name) == Bindings[name].kind = "property" /\ Bindings[name].conv.read = "intbool_conv"
\* the wire text "1" for True and "0" for False
BoolText(b) == Text("int", b.n, FALSE)
\* C18: on a constructed device, writing True to a dtype=bool property sends "1"
\* and writing False sends "0"; reading "1" returns True and "0" returns False;
\* the text sent for a value reads back as that value.
C18_BoolRoundTrips ==
    /\ (vlast.op = "write" /\ BoolProperty(vlast.name) /\ vlast.args.value.t = "bool"
           /\ Usable /\ vlast.args.reply.err = "") =>
           \E i \in SentBy(vlast.name) :
               /\ vlast.events[i].msg.value = BoolText(vlast.args.value)
               /\ Convert(Bindings[vlast.name].conv.read, Strip(vlast.events[i].msg.value))
                      = Ok(vlast.args.value)
    /\ (vlast.op = "read" /\ BoolProperty(vlast.name) /\ Usable
           /\ vlast.args.reply.err = "" /\ Strip(vlast.args.reply.v) \in {BoolText(PyBool(TRUE)), BoolText(PyBool(FALSE))}) =>
           (vlast.err = "" /\ BoolText(vlast.ret) = Strip(vlast.args.reply.v) /\ vlast.ret.t = "bool")

\* C19: the value an action substitutes for a placeholder is the call-time
\* keyword when the caller passed one, and the kwarg_defaults value otherwise,
\* whether or not the instance carries query_params.
C19_ExplicitKeywordWins ==
    vlast.op = "invoke" =>
        \A i \in SentBy(vlast.name) :
            \A j \in DOMAIN vlast.events[i].msg.cmd :
                LET part == vlast.events[i].msg.cmd[j]
                IN /\ (part.k = "val" /\ part.s \in DOMAIN vlast.args.kw) =>
                          part.v = vlast.args.kw[part.s]
                   /\ (part.k = "val" /\ part.s \notin DOMAIN vlast.args.kw
                          /\ part.s \in DOMAIN Bindings[vlast.name].kwarg_defaults) =>
                          part.v = Bindings[vlast.name].kwarg_defaults[part.s]

\* the parameters a template can be resolved from: the query_params of the
\* instance and, for an action, the merged keywords
Resolvable ==
    DOMAIN (IF Self.query_params # None THEN Self.query_params[1] ELSE NoParams)
    \cup (IF vlast.op = "invoke"
          THEN DOMAIN vlast.args.kw \cup DOMAIN Bindings[vlast.name].kwarg_defaults
          ELSE {})
\* the errors of the code that stand for BindingError: the KeyError of
\* str.format in a property, the ValueError an action turns it into
BindingErrors == {"KeyError", "ValueError"}
\* C20: a read, a write or an action call whose template has a placeholder that
\* cannot be resolved fails with the binding error and sends nothing for that
\* command, also on an instance without query_params.
C20_UnresolvedPlaceholderFails ==
    (Accessed /\ ~(Placeholders(Bindings[vlast.name].visa_cmd) \subseteq Resolvable)) =>
        /\ vlast.err \in BindingErrors
        /\ SentBy(vlast.name) = {}

(***************************************************************************)
(* Command options: one device is constructed, the caller may switch the   *)
(* debug flag off, options of its bindings are set and removed, and the    *)
(* bindings are read and written.                                          *)
(***************************************************************************)
\* the bindings whose options are set: a float, an int and a guarded float
OptionTargets == {"freq", "points", "span"}
\* value_multiplier: not passed, or 2.0
Multipliers == {None, Some(PyFloat(16))}
\* the keyword options of one call: none, round_on_read_digits=0,
\* round_on_write_digits=0, disable_write=True
OptionKeywords ==
    {NoOptions,
     [NoOptions EXCEPT !.round_on_read_digits = Some(PyInt(0))],
     [NoOptions EXCEPT !.round_on_write_digits = Some(PyInt(0))],
     [NoOptions EXCEPT !.disable_write = Some(TRUE)]}
\* the keys one remove_command_option call names
OptionFlags == {{"value_multiplier"}, {"disable_write"},
                {"round_on_read_digits", "round_on_write_digits"}}
\* what the instrument answers here: "5.0\n", "1.375", "1", or a failed read
OptionReplies == {Ok(Text("dec", 40, TRUE)), Ok(Text("dec", 11, FALSE)), Ok(Text("int", 8, FALSE)),
                  Raise("VisaIOError")}
\* the values written here: 10.0, 3.0, 5
OptionWriteValues == {PyFloat(80), PyFloat(24), PyInt(5)}

SetOptionStep ==
    \E d \in DOMAIN inst, name \in OptionTargets, vm \in Multipliers, kw \in OptionKeywords :
        SetCommandOption(d, name, vm, kw)
RemoveOptionStep ==
    \E d \in DOMAIN inst, name \in OptionTargets, flags \in OptionFlags :
        RemoveCommandOption(d, name, flags)
OptionReadStep ==
    \E d \in DOMAIN inst, name \in OptionTargets :
        \E reply \in OptionReplies, mode_reply \in ModeReplies(name) : PropRead(d, name, reply, mode_reply)
OptionWriteStep ==
    \E d \in DOMAIN inst, name \in OptionTargets, value \in OptionWriteValues :
        \E mode_reply \in ModeReplies(name) : PropWrite(d, name, value, Ok(Word("SA")), mode_reply)
OptionsNewStep == VisaNew(TRUE, None, None)
InitOptions ==
    /\ NoContainers /\ InitReg
    /\ inst = <<>>
    /\ odicts = <<>>
    /\ vlast = NoOp
    /\ vq = [new |-> 1, debug |-> 1, del |-> 0, access |-> MaxAccess, option |-> MaxOption]
    /\ wait = [pc |-> "idle"]
NextOptions ==
    OptionsNewStep \/ SetDebugStep \/ SetOptionStep \/ RemoveOptionStep
        \/ OptionReadStep \/ OptionWriteStep
SpecOptions == InitOptions /\ [][NextOptions]_vars

(***************************************************************************)
(* Properties of the command options.                                      *)
(***************************************************************************)
\* the options the accessed binding had on the device, NoOptions when it had none
OptionsThen ==
    IF HasOptions(Self, vlast.name) THEN OptionsOf(Self, vlast.pre.odicts, vlast.name)
    ELSE NoOptions
WriteDisabled == OptionsThen.disable_write = Some(TRUE)
\* the instrument is in the mode the guard asks for, and its reply is one the
\* read converter of the binding accepts
RightMode == vlast.args.mode_reply = Ok(Word("SA"))
ReplyTyped == Convert(Bindings[vlast.name].conv.read, Strip(vlast.args.reply.v))
GoodReply == vlast.args.reply.err = "" /\ ReplyTyped.err = ""

\* C15: when the options of a property have disable_write set, every write to
\* it on a constructed device fails with the write-disabled error (the code's
\* ValueError) and nothing reaches the transport, while a read of it succeeds.
C15_DisableWriteBlocksWritesOnly ==
    /\ (vlast.op = "write" /\ Usable /\ WriteDisabled) =>
           (vlast.err = "ValueError" /\ vlast.events = <<>>)
    /\ (vlast.op = "read" /\ Usable /\ WriteDisabled /\ RightMode /\ GoodReply) =>
           vlast.err = ""

\* the multiplier of the options, 1.0 when none is set
Multiplier == IF OptionsThen.value_multiplier # None THEN OptionsThen.value_multiplier[1] ELSE PyFloat(8)
Transformed == OptionsThen.value_multiplier # None
                   \/ OptionsThen.round_on_read_digits # None
                   \/ OptionsThen.round_on_write_digits # None
\* v / m, rounded when round_on_write_digits is set, then converted and rendered
ExpectedSent ==
    LET q == IF OptionsThen.value_multiplier # None THEN Over(vlast.args.value, Multiplier).v
             ELSE vlast.args.value
        r == IF OptionsThen.round_on_write_digits # None THEN PyRound(q, 0).v ELSE q
    IN ToStr(Convert(Bindings[vlast.name].conv.write, r).v)
\* the converted reply times m, rounded when round_on_read_digits is set
ExpectedRead ==
    LET q == IF OptionsThen.value_multiplier # None THEN Times(ReplyTyped.v, Multiplier).v
             ELSE ReplyTyped.v
    IN IF OptionsThen.round_on_read_digits # None THEN PyRound(q, 0).v ELSE q
\* C17: with a value_multiplier m and rounding in the options of a property, a
\* write of v on a constructed device sends the converted value of v / m,
\* rounded after the division, and a read of the wire value w returns w * m,
\* rounded after the multiplication.
C17_MultiplierAndRounding ==
    /\ (vlast.op = "write" /\ Usable /\ Transformed /\ ~WriteDisabled /\ RightMode) =>
           \E i \in SentBy(vlast.name) : vlast.events[i].msg.value = ExpectedSent
    /\ (vlast.op = "read" /\ Usable /\ Transformed /\ RightMode /\ GoodReply) =>
           (vlast.err = "" /\ vlast.ret = ExpectedRead)

(***************************************************************************)
(* Command options of two devices of one class.  The caller holds one      *)
(* mapping {"freq": {"value_multiplier": 2.0}} and may pass it as          *)
(* command_options to each constructor call.                               *)
(***************************************************************************)
\* the caller's option dict, the first dict of the heap
CallerDict == [NoOptions EXCEPT !.value_multiplier = Some(PyFloat(16))]
\* the caller's mapping: binding -> option dict
CallerOptions == [k \in {"freq"} |-> 1]
\* two properties with the same command
SharingTargets == {"freq", "freq_alias"}

SharingNewStep == \E co \in {None, Some(CallerOptions)} : VisaNew(TRUE, co, None)
SharingSetStep ==
    \E d \in DOMAIN inst, name \in SharingTargets, vm \in Multipliers, kw \in OptionKeywords :
        SetCommandOption(d, name, vm, kw)
SharingRemoveStep ==
    \E d \in DOMAIN inst, name \in SharingTargets, flags \in OptionFlags :
        RemoveCommandOption(d, name, flags)
InitSharing ==
    /\ NoContainers /\ InitReg
    /\ inst = <<>>
    /\ odicts = <<CallerDict>>
    /\ vlast = NoOp
    /\ vq = [new |-> MaxVisaNew, debug |-> 1, del |-> 0, access |-> 0, option |-> MaxOption]
    /\ wait = [pc |-> "idle"]
NextSharing == SharingNewStep \/ SetDebugStep \/ SharingSetStep \/ SharingRemoveStep
SpecSharing == InitSharing /\ [][NextSharing]_vars

\* every read and every write of binding name on device d does now what it did
\* before the last operation
SameReads(d, name) ==
    \A reply \in Replies, mode_reply \in ModeReplies(name) :
        visa_getter(inst[d], odicts, name, reply, mode_reply)
            = visa_getter(vlast.pre.inst[d], vlast.pre.odicts, name, reply, mode_reply)
SameWrites(d, name) ==
    \A value \in WriteValues, mode_reply \in ModeReplies(name) :
        PropertySet(inst[d], odicts, name, value, Ok(Word("SA")), mode_reply)
            = PropertySet(vlast.pre.inst[d], vlast.pre.odicts, name, value, Ok(Word("SA")), mode_reply)
OptionCall == vlast.op \in {"set_command_option", "remove_command_option"}
\* C16: a set_command_option or remove_command_option call for binding A on
\* device D leaves the reads and writes of every other binding of D, and of
\* every binding of every other device, as they were.
C16_OptionsKeyedByDeviceAndBinding ==
    OptionCall =>
        \A d \in DOMAIN inst, name \in Properties :
            (d # vlast.d \/ name # vlast.name) => (SameReads(d, name) /\ SameWrites(d, name))

(***************************************************************************)
(* VisaDevice.wait_until_done (lines 317-335) as a process.  wait holds    *)
(* its position pc ("idle" before the call, "check" at the test of line    *)
(* 326, "read" at the read of line 329, "done" after the return, "raised"  *)
(* after an exception left it), its arguments, the time elapsed on the     *)
(* monotonic clock since start_time, and how the transport answers reads.  *)
(***************************************************************************)
\* the clock is followed until it has passed every finite max_wait
MaxClock == MaxWait + 1
\* max_wait: False (None here), or a number of ticks
MaxWaits == {None} \cup {Some(k) : k \in 0..MaxWait}
\* a transport whose every read times out, and one that may also answer or fail
Transports == {"timeouts", "any"}
\* what the instrument may answer to *OPC?
OpcReplies == {"1", "+1"}
ReadOutcomes(transport) ==
    IF transport = "timeouts" THEN {"timeout"} ELSE {"timeout", "error"} \cup OpcReplies
\* lines 318-321: cmd_string
OpcCommand(visa_cmd) ==
    IF visa_cmd = None THEN <<Lit("*OPC?")>> ELSE <<Lit(visa_cmd[1]), Lit(";*OPC?")>>
Idle == [pc |-> "idle", d |-> 0, max_wait |-> None, elapsed |-> 0, transport |-> "any",
         err |-> "", sent |-> <<>>, read |-> "", ret |-> None]

\* D.wait_until_done(visa_cmd, max_wait): lines 318-324, up to the loop
WaitCall(d, visa_cmd, max_wait, transport) ==
    LET w == Transport(inst[d], "write", "wait_until_done",
                       Message(OpcCommand(visa_cmd), "", NoValue))
    IN /\ wait.pc = "idle"
       /\ inst[d].built
       /\ wait' = [pc |-> IF w.err # "" THEN "raised" ELSE "check", d |-> d,
                   max_wait |-> max_wait, elapsed |-> 0, transport |-> transport,
                   err |-> w.err, sent |-> w.events, read |-> "", ret |-> None]
       /\ UNCHANGED <<inst, odicts, vlast, vq, dataVars, regVars>>
\* lines 325-327: the loop test and the ceiling on the waiting time
WaitCheck ==
    /\ wait.pc = "check"
    /\ wait' = IF wait.max_wait # None /\ wait.elapsed > wait.max_wait[1]
               THEN [wait EXCEPT !.pc = "raised", !.err = "TimeoutError"]
               ELSE [wait EXCEPT !.pc = "read"]
    /\ UNCHANGED <<inst, odicts, vlast, vq, dataVars, regVars>>
\* lines 328-335: self._read(); a time-out is swallowed, any other error re-raised
WaitRead(outcome) ==
    /\ wait.pc = "read"
    /\ wait' = CASE outcome = "timeout" -> [wait EXCEPT !.pc = "check", !.read = outcome]
                 [] outcome \in OpcReplies ->
                        [wait EXCEPT !.pc = "done", !.read = outcome, !.ret = Some(outcome)]
                 [] OTHER -> [wait EXCEPT !.pc = "raised", !.err = "VisaIOError", !.read = outcome]
    /\ UNCHANGED <<inst, odicts, vlast, vq, dataVars, regVars>>
\* time.perf_counter() advances while the wait runs
Tick ==
    /\ wait.pc \in {"check", "read"}
    /\ wait.elapsed < MaxClock
    /\ wait' = [wait EXCEPT !.elapsed = @ + 1]
    /\ UNCHANGED <<inst, odicts, vlast, vq, dataVars, regVars>>

WaitCallStep ==
    \E d \in DOMAIN inst, visa_cmd \in {None, Some("init")}, max_wait \in MaxWaits,
       transport \in Transports : WaitCall(d, visa_cmd, max_wait, transport)
WaitReadStep == \E outcome \in ReadOutcomes(wait.transport) : WaitRead(outcome)
WaitNewStep == VisaNew(TRUE, None, None)
InitWait ==
    /\ NoContainers /\ InitReg
    /\ inst = <<>>
    /\ odicts = <<>>
    /\ vlast = NoOp
    /\ vq = [new |-> 1, debug |-> 1, del |-> 0, access |-> 0, option |-> 0]
    /\ wait = Idle
NextWait == WaitNewStep \/ SetDebugStep \/ WaitCallStep \/ WaitCheck \/ WaitReadStep \/ Tick
SpecWait == InitWait /\ [][NextWait]_vars
\* the interpreter keeps executing the loop, and the clock keeps advancing
SpecWaitFair == SpecWait /\ WF_vars(WaitCheck) /\ WF_vars(WaitReadStep) /\ WF_vars(Tick)

\* wait_until_done was called with a finite max_wait on a constructed device
\* whose transport times out on every read
WaitingOnTimeouts ==
    /\ wait.pc # "idle"
    /\ wait.max_wait # None
    /\ wait.transport = "timeouts"
    /\ inst[wait.d].instr = "open"
\* C12: a wait with a finite max_wait against a transport whose every read
\* times out ends by raising TimeoutError; it does not loop forever.
C12_WaitEndsInTimeoutError ==
    WaitingOnTimeouts ~> (wait.pc = "raised" /\ wait.err = "TimeoutError")

(***************************************************************************)
(* Device construction: settings and metadata fields (hw/device.py         *)
(* 108-170).  hierarchy maps a class to [base, DEFAULT_SETTINGS,           *)
(* METADATA_FIELDS]: its base class and the class attributes its own body  *)
(* declares, None for an attribute it does not declare.  A dict is a       *)
(* function from its keys; a list is a sequence.  The device objects       *)
(* built are kept in inst, the last operation in vlast.                    *)
(***************************************************************************)
\* the classes between cls and Device, cls first: cls.__mro__ without object
RECURSIVE Mro(_, _)
Mro(h, cls) == IF h[cls].base = "object" THEN <<cls>> ELSE <<cls>> \o Mro(h, h[cls].base)
Reverse(seq) == [i \in 1..Len(seq) |-> seq[Len(seq) + 1 - i]]
\* getattr(cls, attr): the declaration of the nearest class of the MRO that has one
RECURSIVE ClassAttr(_, _, _)
ClassAttr(h, cls, attr) ==
    IF h[cls][attr] # None THEN h[cls][attr][1] ELSE ClassAttr(h, h[cls].base, attr)
\* mutant of Unique: each element once, at its last position
RECURSIVE UniqueLastSeen(_)
UniqueLastSeen(seq) ==
    IF seq = <<>> THEN <<>>
    ELSE LET back == UniqueLastSeen(Tail(seq))
         IN IF \E i \in DOMAIN back : back[i] = seq[1] THEN back ELSE <<seq[1]>> \o back
\* list(dict.fromkeys(seq)): each element once, at its first position
RECURSIVE Unique(_)
Unique(seq) ==
    IF seq = <<>> THEN <<>>
    ELSE LET front == Unique(SubSeq(seq, 1, Len(seq) - 1))
             x == seq[Len(seq)]
         IN IF \E i \in DOMAIN front : front[i] = x THEN front ELSE Append(front, x)
\* lines 131-138: metadata_fields += subcl.METADATA_FIELDS over the reversed MRO;
\* every class below object has the attribute, declared or inherited
RECURSIVE GatherFields(_, _)
GatherFields(h, classes) ==
    IF classes = <<>> THEN <<>>
    ELSE ClassAttr(h, classes[1], "METADATA_FIELDS") \o GatherFields(h, Tail(classes))
\* lines 131-151: [self, hierarchy]: the new object and the class attributes
\* afterwards.  self.DEFAULT_SETTINGS is deep-copied, then updated.
DeviceInit(h, cls, settings) ==
    [self |-> [cls |-> cls,
               metadata_registry |-> Unique(GatherFields(h, Reverse(Mro(h, cls)))),
               settings |-> Merge(ClassAttr(h, cls, "DEFAULT_SETTINGS"),
                                  IF settings = None THEN <<>> ELSE settings[1])],
     hierarchy |-> h]
\* collect_metadata, lines 158-170: [err, ret].  values gives what getattr(self,
\* field) returns, failing the fields whose read raises; a SettingEnum member is
\* replaced by its name.
collect_metadata(self, values, failing) ==
    LET fields == {self.metadata_registry[i] : i \in DOMAIN self.metadata_registry}
    IN IF fields \cap failing # {} THEN [err |-> "AttributeError", ret |-> <<>>]
       ELSE [err |-> "",
             ret |-> [f \in fields |-> IF values[f].t = "enum" THEN Word(values[f].form)
                                        ELSE values[f]]]

\* D = cls(id, settings=settings)
NewDevice(cls, settings) ==
    LET r == DeviceInit(hierarchy, cls, settings)
    IN /\ Spend("new")
       /\ inst' = Append(inst, r.self)
       /\ hierarchy' = r.hierarchy
       /\ vlast' = [op |-> "device_init", err |-> "", d |-> Len(inst) + 1, cls |-> cls,
                    settings |-> settings, pre |-> hierarchy]
       /\ UNCHANGED <<odicts, wait, dataVars, hwconf, cache, devs, imported, ctorRuns,
                      optedOut, returned, calls, rlast>>
\* D.collect_metadata()
Collect(d, values, failing) ==
    LET r == collect_metadata(inst[d], values, failing)
    IN /\ Spend("access")
       /\ vlast' = [op |-> "collect_metadata", err |-> r.err, d |-> d, ret |-> r.ret,
                    failing |-> failing, pre |-> hierarchy]
       /\ UNCHANGED <<inst, odicts, wait, dataVars, regVars>>

\* the class attributes the driver classes may declare
ScopeDefaults == {None, Some([enc |-> 1, width |-> 2])}
LabScopeDefaults == {None, Some([gain |-> 3]), Some([width |-> 4])}
ScopeFields == {None, Some(<<"span", "rbw">>)}
LabScopeFields == {None, Some(<<"rbw", "gain">>), Some(<<"gain", "span", "gain">>)}
\* Device <- VisaDevice <- Scope <- LabScope
Hierarchy(sd, sf, ld, lf) ==
    [Device |-> [base |-> "object", DEFAULT_SETTINGS |-> Some(<<>>), METADATA_FIELDS |-> Some(<<>>)],
     VisaDevice |-> [base |-> "Device", DEFAULT_SETTINGS |-> None, METADATA_FIELDS |-> None],
     Scope |-> [base |-> "VisaDevice", DEFAULT_SETTINGS |-> sd, METADATA_FIELDS |-> sf],
     LabScope |-> [base |-> "Scope", DEFAULT_SETTINGS |-> ld, METADATA_FIELDS |-> lf]]
\* the settings a caller passes: none, {}, and dicts that share or add a key
CallerSettings == {None, Some(<<>>), Some([enc |-> 9]), Some([offset |-> 7])}
\* what the fields read as: numbers, and a SettingEnum member for rbw
FieldValues == [f \in {"span", "rbw", "gain"} |->
                   IF f = "rbw" THEN [t |-> "enum", n |-> 0, form |-> "NARROW", ws |-> FALSE]
                   ELSE PyFloat(8)]

NewDeviceStep ==
    \E cls \in {"VisaDevice", "Scope", "LabScope"}, settings \in CallerSettings :
        NewDevice(cls, settings)
CollectStep ==
    \E d \in DOMAIN inst, failing \in {{}, {"gain"}} : Collect(d, FieldValues, failing)
InitSettings ==
    /\ NoContainers
    /\ hwconf = [devices |-> <<>>, modules |-> {}, classes |-> {}]
    /\ cache = <<>> /\ devs = <<>> /\ imported = {} /\ ctorRuns = <<>>
    /\ optedOut = FALSE /\ returned = <<>> /\ calls = 0 /\ rlast = NoOp
    /\ \E sd \in ScopeDefaults, sf \in ScopeFields, ld \in LabScopeDefaults, lf \in LabScopeFields :
           hierarchy = Hierarchy(sd, sf, ld, lf)
    /\ inst = <<>>
    /\ odicts = <<>>
    /\ vlast = NoOp
    /\ vq = [new |-> 1, debug |-> 0, del |-> 0, access |-> MaxAccess, option |-> 0]
    /\ wait = [pc |-> "idle"]
NextSettings == NewDeviceStep \/ CollectStep
SpecSettings == InitSettings /\ [][NextSettings]_vars

\* the defaults declared by the classes of the sequence, a later class winning
RECURSIVE DeclaredDefaults(_, _)
DeclaredDefaults(h, classes) ==
    IF classes = <<>> THEN <<>>
    ELSE LET c == classes[Len(classes)]
             rest == DeclaredDefaults(h, SubSeq(classes, 1, Len(classes) - 1))
         IN IF h[c].DEFAULT_SETTINGS = None THEN rest ELSE Merge(rest, h[c].DEFAULT_SETTINGS[1])
Constructed == vlast.op = "device_init" /\ vlast.err = ""
\* C21: the settings of a constructed device are the DEFAULT_SETTINGS declared
\* along its class hierarchy, a subclass's value winning over its parents',
\* overlaid with the caller's settings; no class attribute changes.
C21_SettingsMergeHierarchy ==
    Constructed =>
        /\ inst[vlast.d].settings
               = Merge(DeclaredDefaults(vlast.pre, Reverse(Mro(vlast.pre, vlast.cls))),
                       IF vlast.settings = None THEN <<>> ELSE vlast.settings[1])
        /\ hierarchy = vlast.pre

\* the METADATA_FIELDS lists the classes of the sequence declare themselves, concatenated
RECURSIVE DeclaredFields(_, _)
DeclaredFields(h, classes) ==
    IF classes = <<>> THEN <<>>
    ELSE (IF h[classes[1]].METADATA_FIELDS = None THEN <<>> ELSE h[classes[1]].METADATA_FIELDS[1])
             \o DeclaredFields(h, Tail(classes))
FirstIndex(seq, x) == CHOOSE i \in DOMAIN seq : seq[i] = x /\ \A j \in 1..(i - 1) : seq[j] # x
Elements(seq) == {seq[i] : i \in DOMAIN seq}
\* the fields declared from the base class down to the class of device d
DeclaredFor(d) == DeclaredFields(hierarchy, Reverse(Mro(hierarchy, inst[d].cls)))
\* the registry holds exactly the declared fields, each once, in first-seen order
RegistryInOrder(d) ==
    LET reg == inst[d].metadata_registry
        decl == DeclaredFor(d)
    IN /\ Elements(reg) = Elements(decl)
       /\ \A i, j \in DOMAIN reg :
              i < j => FirstIndex(decl, reg[i]) < FirstIndex(decl, reg[j])
Given(arg) == IF arg = None THEN "str" ELSE arg[1]
\* prop = visa_property(cmd, dtype=.., read_conv=.., write_conv=.., rw_conv=..),
\* then a read answered by reply and a write of value
Declare(dtype, read_conv, write_conv, rw_conv, reply, value) ==
    LET conv == Converters(dtype, Given(read_conv), Given(write_conv), rw_conv)
    IN /\ Spend("access")
       /\ vlast' = [op |-> "visa_property", err |-> "", dtype |-> dtype, read_conv |-> read_conv,
                    write_conv |-> write_conv, rw_conv |-> rw_conv, reply |-> reply,
                    value |-> value, conv |-> conv,
                    read |-> Convert(conv.read, Strip(reply)),
                    written |-> Convert(conv.write, value)]
       /\ UNCHANGED <<inst, odicts, wait, dataVars, regVars>>
Dtypes == {None, Some("float"), Some("int"), Some("bool")}
ConverterArgs == {None, Some("float"), Some("int")}
DeclareStep ==
    \E dtype \in Dtypes, read_conv \in ConverterArgs, write_conv \in ConverterArgs,
       rw_conv \in {None, Some("int")} :
        \E reply \in {Text("dec", 40, TRUE), Text("int", 8, FALSE)}, value \in {PyFloat(20)} :
            Declare(dtype, read_conv, write_conv, rw_conv, reply, value)
InitConverters ==
    /\ NoContainers /\ InitReg
    /\ inst = <<>>
    /\ odicts = <<>>
    /\ vlast = NoOp
    /\ vq = [new |-> 0, debug |-> 0, del |-> 0, access |-> MaxAccess, option |-> 0]
    /\ wait = [pc |-> "idle"]
NextConverters == DeclareStep
SpecConverters == InitConverters /\ [][NextConverters]_vars

\* the converter the caller gave for reading and for writing: rw_conv, else
\* read_conv / write_conv, None when neither was given
ExplicitRead == IF vlast.rw_conv # None THEN vlast.rw_conv ELSE vlast.read_conv
ExplicitWrite == IF vlast.rw_conv # None THEN vlast.rw_conv ELSE vlast.write_conv
\* C22: a property declared with a dtype and an explicit converter reads with
\* the explicit read converter and writes with the explicit write converter.
C22_ExplicitConvertersWin ==
    (vlast.op = "visa_property" /\ vlast.dtype # None) =>
        /\ ExplicitRead # None => vlast.read = Convert(ExplicitRead[1], Strip(vlast.reply))
        /\ ExplicitWrite # None => vlast.written = Convert(ExplicitWrite[1], vlast.value)

(***************************************************************************)
(* Looking up a command object (lines 337-345).  What the caller passes as *)
(* cmd is [str, kind, name]: a string name (str), or an object of some     *)
(* kind: a property object or a function of the class ("property",         *)
(* "callable") or a value a property evaluated to ("value").  A string may *)
(* itself be such a value, passed by mistake.                              *)
(***************************************************************************)
ByName(name) == [str |-> TRUE, kind |-> "", name |-> name]
ByObject(kind, name) == [str |-> FALSE, kind |-> kind, name |-> name]
\* the attributes of the driver class: the bindings, a method, a plain class attribute
ClassAttributes ==
    [name \in BindingNames \cup {"setup", "NUM_CHANNELS"} |->
        IF name \in Properties THEN "property"
        ELSE IF name = "NUM_CHANNELS" THEN "value" ELSE "callable"]
\* mutant of look_up_command_object: whatever the name resolves to, or is passed, is accepted
LookUpAcceptsAnything(cmd) ==
    IF cmd.str /\ cmd.name \notin DOMAIN ClassAttributes
    THEN [err |-> "ValueError", msg |-> "cannot be found", name |-> ""]
    ELSE [err |-> "", msg |-> "", name |-> cmd.name]
\* look_up_command_object: [err, msg, name]; msg tells the two ValueErrors apart
look_up_command_object(cmd) ==
    LET kind == IF ~cmd.str THEN cmd.kind
                ELSE IF cmd.name \in DOMAIN ClassAttributes THEN ClassAttributes[cmd.name]
                ELSE ""
    IN IF cmd.str /\ cmd.name \notin DOMAIN ClassAttributes
       THEN [err |-> "ValueError", msg |-> "cannot be found", name |-> ""]
       ELSE IF kind \notin {"property", "callable"}
       THEN [err |-> "ValueError", msg |-> "Invalid command object", name |-> ""]
       ELSE [err |-> "", msg |-> "", name |-> cmd.name]

\* D.set_command_option(cmd, value_multiplier=.., **kw), the lookup included
SetOptionBy(d, cmd, value_multiplier, kw) ==
    LET l == look_up_command_object(cmd)
        r == set_command_option(inst[d], odicts, l.name, value_multiplier, kw)
    IN /\ Spend("option")
       /\ inst[d].built
       /\ inst' = IF l.err = "" THEN [inst EXCEPT ![d] = r.self] ELSE inst
       /\ odicts' = IF l.err = "" THEN r.heap ELSE odicts
       /\ vlast' = [op |-> "set_option_by", d |-> d, cmd |-> cmd, err |-> l.err, msg |-> l.msg,
                    pre |-> VisaBefore]
       /\ UNCHANGED <<wait, dataVars, regVars>>
\* D.remove_command_option(cmd, <key>=True, ..), the lookup included
RemoveOptionBy(d, cmd, flags) ==
    LET l == look_up_command_object(cmd)
        r == remove_command_option(inst[d], odicts, l.name, flags)
    IN /\ Spend("option")
       /\ inst[d].built
       /\ inst' = IF l.err = "" THEN [inst EXCEPT ![d] = r.self] ELSE inst
       /\ odicts' = IF l.err = "" THEN r.heap ELSE odicts
       /\ vlast' = [op |-> "remove_option_by", d |-> d, cmd |-> cmd, err |-> l.err, msg |-> l.msg,
                    pre |-> VisaBefore]
       /\ UNCHANGED <<wait, dataVars, regVars>>

\* what callers pass: names of a property, of an action, of a method, of a plain
\* class attribute and of nothing; the property object and the function; the
\* values D.freq (a float) and D.scale read without converter (a str)
Commands ==
    {ByName("freq"), ByName("save"), ByName("setup"), ByName("NUM_CHANNELS"), ByName("nope"),
     ByObject("property", "freq"), ByObject("callable", "save"),
     ByObject("value", "5.0"), [str |-> TRUE, kind |-> "value", name |-> "0.5"]}
SetByStep ==
    \E d \in DOMAIN inst, cmd \in Commands, vm \in Multipliers, kw \in OptionKeywords :
        SetOptionBy(d, cmd, vm, kw)
RemoveByStep ==
    \E d \in DOMAIN inst, cmd \in Commands, flags \in OptionFlags : RemoveOptionBy(d, cmd, flags)
LookupNewStep == \E co \in {None, Some(CallerOptions)} : VisaNew(TRUE, co, None)
InitLookup ==
    /\ NoContainers /\ InitReg
    /\ inst = <<>>
    /\ odicts = <<CallerDict>>
    /\ vlast = NoOp
    /\ vq = [new |-> 1, debug |-> 0, del |-> 0, access |-> 0, option |-> MaxOption]
    /\ wait = [pc |-> "idle"]
NextLookup == LookupNewStep \/ SetByStep \/ RemoveByStep
SpecLookup == InitLookup /\ [][NextLookup]_vars

(***************************************************************************)
(* Properties of the lookup and of the option calls.                       *)
(***************************************************************************)
LookupCall == vlast.op \in {"set_option_by", "remove_option_by"}
\* the string names no attribute of the class
UnknownName == vlast.cmd.str /\ vlast.cmd.name \notin DOMAIN ClassAttributes
\* the string names an attribute that is neither a property nor callable
NamesNoBinding ==
    /\ vlast.cmd.str /\ vlast.cmd.name \in DOMAIN ClassAttributes
    /\ ClassAttributes[vlast.cmd.name] \notin {"property", "callable"}
\* the caller passed what a property evaluated to
EvaluatedValue == vlast.cmd.kind = "value"
LookupError == vlast.err = "ValueError" /\ vlast.msg = "cannot be found"
GuidanceError == vlast.err = "ValueError" /\ vlast.msg = "Invalid command object"
OptionsUntouched == inst = vlast.pre.inst /\ odicts = vlast.pre.odicts
RecordBefore(name) ==
    IF name \in DOMAIN Self.command_options THEN vlast.pre.odicts[Self.command_options[name]]
    ELSE NoOptions
RecordAfter(name) == odicts[inst[vlast.d].command_options[name]]
\* the option the call gave for key k, None when it gave none
GivenOption(k) ==
    IF k = "value_multiplier" /\ vlast.args.value_multiplier # None
    THEN vlast.args.value_multiplier
    ELSE vlast.args.kw[k]
\* the records of the other bindings of the device are the ones it had, unchanged
OtherRecordsKept ==
    /\ DOMAIN inst[vlast.d].command_options \ {vlast.name} = DOMAIN Self.command_options \ {vlast.name}
    /\ \A n \in DOMAIN Self.command_options \ {vlast.name} : RecordAfter(n) = RecordBefore(n)
\* C25: set_command_option merges the given options into the device's record
\* of the binding, creating it if absent, and keeps its other keys and the
\* records of the device's other bindings; remove_command_option deletes the
\* keys flagged, keeps the others, and does nothing when there is no record.
C25_OptionCallsMergeAndDelete ==
    /\ vlast.op = "set_command_option" =>
           /\ vlast.name \in DOMAIN inst[vlast.d].command_options
           /\ \A k \in DOMAIN NoOptions :
                  RecordAfter(vlast.name)[k]
                      = IF GivenOption(k) # None THEN GivenOption(k) ELSE RecordBefore(vlast.name)[k]
           /\ OtherRecordsKept
    /\ (vlast.op = "remove_command_option" /\ vlast.name \in DOMAIN Self.command_options) =>
           /\ \A k \in DOMAIN NoOptions :
                  RecordAfter(vlast.name)[k]
                      = IF k \in vlast.args.flags THEN None ELSE RecordBefore(vlast.name)[k]
           /\ OtherRecordsKept
    /\ (vlast.op = "remove_command_option" /\ vlast.name \notin DOMAIN Self.command_options) =>
           (inst = vlast.pre.inst /\ odicts = vlast.pre.odicts)
\* C25 witness: the device had a record with a value_multiplier for freq; a set
\* call gave freq another option, and the multiplier is still there.
C25_Witness ==
    /\ vlast.op = "set_command_option" /\ vlast.name = "freq"
    /\ RecordBefore("freq").value_multiplier # None
    /\ vlast.args.value_multiplier = None
    /\ vlast.args.kw.disable_write = Some(TRUE)
    /\ RecordAfter("freq").value_multiplier = RecordBefore("freq").value_multiplier
    /\ RecordAfter("freq").disable_write = Some(TRUE)


(***************************************************************************)
(* What a successful property write sends                                  *)
(***************************************************************************)
GoodWrite == vlast.op = "write" /\ vlast.err = ""
\* the transport traffic of the last call: every write and every query
\* (a query is one message followed by one read)
Traffic == SelectSeq(vlast.events, LAMBDA e : e.e \in {"write", "query"})
\* template + delimiter + converted value of the last write
WrittenMessage ==
    Message(FormatCommand(inst[vlast.d], vlast.name).cmd,
            Bindings[vlast.name].set_cmd_delimiter,
            ToStr(Convert(Bindings[vlast.name].conv.write, vlast.args.value).v))
\* the one event of the setter: a query when read_on_write, else a write,
\* and nothing is returned to the caller
SetterEvent(e) ==
    /\ e = Event(IF Bindings[vlast.name].read_on_write THEN "query" ELSE "write",
                 vlast.name, WrittenMessage)
    /\ vlast.ret = NoValue
\* what the access guard of the property sends: nothing when there is none,
\* else the one query of the instrument mode
GuardTraffic(tr) ==
    IF Bindings[vlast.name].access_guard
    THEN /\ Len(tr) = 1
         /\ tr[1].e = "query" /\ tr[1].by = "instrument_mode"
    ELSE tr = <<>>

\* C24: a successful property write sends exactly one message, template +
\* delimiter + converted value; with read_on_write it is followed by exactly
\* one read whose response is discarded, and without read_on_write no read
\* is issued
C24_WriteSendsOneMessage ==
    GoodWrite => /\ Len(Traffic) = 1
                 /\ SetterEvent(Traffic[1])
\* C24, amended: the traffic of a successful property write ends with that one
\* message (a query when read_on_write, a plain write otherwise); all that
\* precedes it is the mode query of the property's access guard, if it has one
C24_WriteSendsOneMessageAfterGuard ==
    GoodWrite => /\ Len(Traffic) >= 1
                 /\ SetterEvent(Traffic[Len(Traffic)])
                 /\ GuardTraffic(SubSeq(Traffic, 1, Len(Traffic) - 1))
\* a successful write of a read_on_write property
C24_Witness == GoodWrite /\ Bindings[vlast.name].read_on_write

(***************************************************************************)
(* The completion wait, step by step                                       *)
(***************************************************************************)
\* the call of wait_until_done, and one attempt to read inside its loop
WaitStarts == wait.pc = "idle" /\ wait'.pc # "idle"
ReadAttempt == wait.pc = "read" /\ wait'.pc # "read"
\* the completion query, as the call of the wait has written it
QueryWrittenOnce ==
    /\ Len(wait'.sent) = 1
    /\ wait'.sent[1].e = "write"
    /\ wait'.sent[1].msg.cmd[Len(wait'.sent[1].msg.cmd)].s \in {"*OPC?", ";*OPC?"}
\* what one attempt to read leads to
ReadHandled ==
    /\ wait'.read = "timeout" => wait'.pc = "check" /\ wait'.err = ""
    /\ wait'.read = "error" => wait'.pc = "raised" /\ wait'.err = "VisaIOError"
    /\ wait'.read \in OpcReplies => wait'.pc = "done" /\ wait'.ret = Some(wait'.read)
WaitStep ==
    /\ WaitStarts => QueryWrittenOnce
    /\ wait.pc # "idle" => wait'.sent = wait.sent
    /\ ReadAttempt => ReadHandled
    /\ wait'.ret # None => wait.pc = "read"

\* C23: during wait_until_done the completion query is written exactly once; a
\* read that times out is retried without rewriting the query, a read that
\* fails with any other transport error aborts the wait with that error, and
\* the response of the first successful read is returned
C23_WaitWritesOnceAndRetries == [][WaitStep]_vars

(***************************************************************************)
(* Malformed index expressions                                             *)
(***************************************************************************)
\* how many selectors an expression holds once its ellipsis, or else its
\* missing tail, is written out over a grid of rank r
ExpandedCount(r, item) ==
    LET given == Len(item) - NumEllipsis(item)
    IN IF NumEllipsis(item) = 0 THEN Max(Len(item), r) ELSE given + Max(r - given, 0)
IlocCalled == last.op = "iloc"
IlocRank == Len(last.pre_objs[last.parent].o.data_array.shape)
ManyEllipses == NumEllipsis(last.item) > 1
CountMismatch == NumEllipsis(last.item) <= 1 /\ ExpandedCount(IlocRank, last.item) # IlocRank
NothingBuilt == objs = last.pre_objs /\ lists = last.pre_lists /\ dicts = last.pre_dicts

\* C29: X.iloc[I] fails with IndexError when I holds more than one ellipsis, or
\* when the selector count after the expansion of the ellipsis differs from
\* the rank of the grid; no container is returned and X is as it was
C29_MalformedItemIndexError ==
    (IlocCalled /\ (ManyEllipses \/ CountMismatch)) =>
        /\ last.err = "IndexError"
        /\ NothingBuilt
\* an expression without ellipsis that holds more selectors than the grid has dimensions
C29_Witness == IlocCalled /\ CountMismatch /\ last.err = "IndexError"

(***************************************************************************)
(* Well-formed containers                                                  *)
(***************************************************************************)
\* one axes entry per grid dimension, and every coordinate array as long as
\* its dimension
WellFormed(o) ==
    /\ Len(o.axes) = Len(o.data_array.shape)
    /\ \A p \in DOMAIN o.axes :
          \/ o.axes[p].kind = "none"
          \/ o.axes[p].kind = "array" /\ Len(o.axes[p].v) = o.data_array.shape[p]

\* C28: a container obtained from a well-formed container by iloc with integer,
\* slice and ellipsis selectors is well-formed again, and so is every
\* container reached by a sequence of such operations
C28_IlocKeepsWellFormed ==
    /\ IlocDone => (WellFormed(last.pre_objs[last.parent].o) => WellFormed(IlocChild))
    /\ (\A x \in DOMAIN objs : objs[x].src = "new" => WellFormed(objs[x].o))
            => \A x \in DOMAIN objs : WellFormed(objs[x].o)
\* the second operation of a sequence: a well-formed container with
\* coordinates, indexed out of the result of an earlier iloc
C28_Witness ==
    /\ IlocDone
    /\ objs[last.parent].src = "iloc"
    /\ WellFormed(objs[last.parent].o)
    /\ \E p \in DOMAIN IlocChild.axes : IlocChild.axes[p].kind = "array"

(***************************************************************************)
(* Metadata of a container and of the containers indexed out of it.  The   *)
(* caller assigns into X.metadata, or into the dict nested in it.          *)
(***************************************************************************)
\* d[key] = v on the dict object d of the heap
DictAssign(ds, d, key, v) ==
    [ds EXCEPT ![d] = [k \in DOMAIN ds[d] \cup {key} |-> IF k = key THEN DictVal(v) ELSE ds[d][k]]]
\* X.metadata['setting1'] = v, or X.metadata['settings444']['eggd'] = v
MetadataAssign(x, nested, v) ==
    LET root == objs[x].o.metadata
        target == IF nested THEN dicts[root]["settings444"].v ELSE root
    IN /\ quota.edit > 0
       /\ quota' = [quota EXCEPT !.edit = @ - 1]
       /\ dicts' = DictAssign(dicts, target, IF nested THEN "eggd" ELSE "setting1", v)
       /\ last' = [op |-> "assign", err |-> "", x |-> x, nested |-> nested, v |-> v,
                   pre_dicts |-> dicts]
       /\ UNCHANGED <<objs, lists, archive, regVars, visaVars>>
AssignStep == \E x \in DOMAIN objs, nested \in BOOLEAN, v \in {7, 8} : MetadataAssign(x, nested, v)

\* one container is built, containers are indexed out of it and out of each
\* other, and the caller assigns into the metadata of any of them
InitMetadata ==
    InitData([new |-> 1, iloc |-> MaxIloc, stack |-> 0, save |-> 0, load |-> 0, edit |-> MaxEdit])
        /\ InitReg
\* an index expression of every kind: (), (0,), (slice,), (...,)
MetadataItems == {<<>>, <<IntSel(0)>>, <<FullSlice>>, <<EllipsisSel>>}
MetadataIlocStep == \E x \in DOMAIN objs : \E item \in MetadataItems : Iloc(x, item)
MetadataNewStep == \E r \in 0..1 : New(r, {}, 0)
NextMetadata == MetadataNewStep \/ MetadataIlocStep \/ AssignStep
SpecMetadata == InitMetadata /\ [][NextMetadata]_vars

\* the metadata of container z, nested values included, is what it was before
\* the last operation
MetadataKept(z) == DictEq(dicts, objs[z].o.metadata, last.pre_dicts, objs[z].o.metadata)
\* C27: the container produced by X.iloc[I] holds a deep-copied snapshot of
\* X.metadata: a change made through the metadata of one of them, a change to
\* a nested value included, is never visible through the metadata of the other
C27_MetadataSnapshotIsDeep ==
    last.op = "assign" => \A z \in DOMAIN objs \ {last.x} : MetadataKept(z)
====
